---- MODULE Spec2Model ----
(***************************************************************************)
(* Model of the GLA decoder of tools/gla2ozz: the binary parser            *)
(* (gla_parser.cc, gla_format.h), the skeleton import of gla2ozz.cc and    *)
(* the pure decompression and matrix helpers they use.                     *)
(*                                                                         *)
(* Numbers.  A file is a sequence of bytes (0..255).  A 32-bit field is    *)
(* carried as its two's-complement signed value; a size_t is carried as    *)
(* the signed representative of its value modulo 2^64, and unsigned        *)
(* comparisons go through ULt/UGt.  A float is carried as an integer       *)
(* number of 1/TRANS_SCALE units (1/64): the inputs of the model are       *)
(* chosen so that every float operation of the code is exact on them       *)
(* (quaternions with components in {0, 1/2, 1}, rotation matrices that are *)
(* signed permutations, integer bind-pose translations), and Exact/FSqrt   *)
(* are undefined elsewhere.                                                *)
(***************************************************************************)
EXTENDS Integers, Sequences, FiniteSets, TLC

VARIABLES
    m_file_data,        \* std::vector<uint8_t>: the bytes of the last file read
    m_header,           \* GlaHeader copied from the file
    m_bones,            \* std::vector<GlaBone>
    m_frame_data,       \* pointer into the buffer: [epoch, off], or NullPtr
    m_bone_pool,        \* pointer into the buffer: [epoch, off], or NullPtr
    m_frame_data_size,  \* size_t
    m_bone_pool_size,   \* size_t
    capacity,           \* m_file_data.capacity()
    epoch,              \* how many times the buffer has been reallocated
    loads,              \* number of Load calls made
    loaded,             \* what the last Load call returned
    m_clips,            \* AnimationCfgParser: std::vector<AnimationClip>
    m_mappings,         \* BoneMapper: std::vector<BoneMapping>
    m_source_bone_map,  \* BoneMapper: std::unordered_map<std::string, int>
    m_target_bone_map,  \* BoneMapper: std::unordered_map<std::string, int>
    retarget,           \* ozz-retarget main: its position and its locals
    crashed,            \* the process has terminated abnormally
    last                \* the last call: its name, arguments, result and reads

vars == <<m_file_data, m_header, m_bones, m_frame_data, m_bone_pool,
          m_frame_data_size, m_bone_pool_size, capacity, epoch, loads, loaded,
          m_clips, m_mappings, m_source_bone_map, m_target_bone_map, retarget,
          crashed, last>>

parserVars == <<m_file_data, m_header, m_bones, m_frame_data, m_bone_pool,
                m_frame_data_size, m_bone_pool_size, capacity, epoch, loads,
                loaded, m_clips, m_mappings, m_source_bone_map,
                m_target_bone_map, retarget>>

\* The GLA parser and importer, without the bone mapper of ozz-retarget.
importerVars == <<m_file_data, m_header, m_bones, m_frame_data, m_bone_pool,
                  m_frame_data_size, m_bone_pool_size, capacity, epoch, loads,
                  loaded, m_clips, m_source_bone_map, m_target_bone_map,
                  retarget>>

\* The bone maps of a new BoneMapper, and ozz-retarget before it is run.
NoBones == <<>>
NotStarted ==
    [pc |-> "none", exit_code |-> -1, reported |-> -1, args |-> <<>>,
     num_keyframes |-> 0, time_step |-> 0, mapping_infos |-> <<>>, frame |-> 0,
     source_world_rotations |-> <<>>, target_world_rotations |-> <<>>,
     reads |-> {}, tracks |-> <<>>, output |-> <<>>]

(***************************************************************************)
(* Format constants (gla_format.h)                                         *)
(***************************************************************************)
GLA_IDENT == 1095191602          \* ('A'<<24)+('G'<<16)+('L'<<8)+'2' = 0x41474C32
GLA_VERSION == 6
MAX_BONE_NAME == 64
QUAT_SCALE == 16383
QUAT_OFFSET == 2
TRANS_SCALE == 64
TRANS_OFFSET == 512
HeaderSize == 100                \* sizeof(GlaHeader), packed
BoneHeaderSize == 172            \* sizeof(GlaSkelBoneHeader), packed
CompressedBoneSize == 14         \* sizeof(CompressedBone)
FrameIndexSize == 3              \* bytes of one frame-index entry
kMaxJoints == 1024               \* ozz::animation::Skeleton::kMaxJoints

\* Field offsets inside GlaHeader and GlaSkelBoneHeader (#pragma pack(1)).
OfsIdent == 0
OfsVersion == 4
OfsName == 8
OfsScale == 72
OfsNumFrames == 76
OfsOfsFrames == 80
OfsNumBones == 84
OfsOfsCompBonePool == 88
OfsOfsSkel == 92
OfsOfsEnd == 96
BoneOfsFlags == 64
BoneOfsParent == 68
BoneOfsBasePose == 72
BoneOfsBasePoseInv == 120
BoneOfsNumChildren == 168

(***************************************************************************)
(* Bounds of the exploration                                               *)
(***************************************************************************)
MaxLoads == 2                    \* Load calls made on one parser instance

(***************************************************************************)
(* Integers and bytes                                                      *)
(***************************************************************************)
Pow2(n) == IF n <= 0 THEN 1 ELSE 2 ^ n
IntMin == (-2147483647) - 1

\* The four little-endian bytes of a 32-bit value given by its signed value.
LE32(v) ==
    LET u == IF v >= 0 THEN v ELSE (v + 2147483647) + 1   \* v + 2^31
        top == (u \div 16777216) + (IF v >= 0 THEN 0 ELSE 128)
    IN  <<u % 256, (u \div 256) % 256, (u \div 65536) % 256, top>>

LE16(v) == <<v % 256, (v \div 256) % 256>>
LE24(v) == <<v % 256, (v \div 256) % 256, (v \div 65536) % 256>>

\* memcpy of a 32-bit field at byte offset off of data: its signed value.
RdI32(data, off) ==
    LET b0 == data[off + 1]
        b1 == data[off + 2]
        b2 == data[off + 3]
        b3 == data[off + 4]
        low == b0 + 256 * b1 + 65536 * b2 + 16777216 * (b3 % 128)
    IN  IF b3 >= 128 THEN (low - 2147483647) - 1 ELSE low

Zeros(n) == [i \in 1..n |-> 0]

\* Unsigned comparison of two size_t values held as signed representatives.
ULt(a, b) ==
    IF (a >= 0) = (b >= 0) THEN a < b ELSE a >= 0
UGt(a, b) == ULt(b, a)

(***************************************************************************)
(* Floats: exact arithmetic in units of 1/TRANS_SCALE                      *)
(***************************************************************************)
One == TRANS_SCALE
\* n/d when the quotient is exact; a non-number (unusable) otherwise.
Exact(n, d) == IF n % d = 0 THEN n \div d ELSE "inexact"
FMul(a, b) == Exact(a * b, One)
FDiv(a, b) == Exact(a * One, b)
FSqrt(a) == CHOOSE r \in 0..(a + One) : r * r = a * One

\* The value of an IEEE-754 binary32 stored little-endian at off, in 1/64 units.
RdF32(data, off) ==
    LET b0 == data[off + 1]
        b1 == data[off + 2]
        b2 == data[off + 3]
        b3 == data[off + 4]
        sign == b3 \div 128
        exp == (b3 % 128) * 2 + (b2 \div 128)
        mant == (b2 % 128) * 65536 + b1 * 256 + b0
        mag == IF exp = 0 /\ mant = 0 THEN 0
               ELSE Exact(8388608 + mant, Pow2(144 - exp))
    IN  IF sign = 1 THEN 0 - mag ELSE mag

\* The little-endian binary32 bytes of the integer v, |v| < 2^24.
Log2Floor(v) == CHOOSE e \in 0..24 : Pow2(e) <= v /\ v < Pow2(e + 1)
F32Bytes(v) ==
    IF v = 0 THEN <<0, 0, 0, 0>>
    ELSE LET a == IF v < 0 THEN 0 - v ELSE v
             e == Log2Floor(a)
             mant == (a - Pow2(e)) * Pow2(23 - e)
             exp == 127 + e
         IN  <<mant % 256, (mant \div 256) % 256,
               (mant \div 65536) + (exp % 2) * 128,
               (exp \div 2) + (IF v < 0 THEN 128 ELSE 0)>>

(***************************************************************************)
(* Quaternion and matrix helpers (gla_parser.cc, anonymous namespace)      *)
(***************************************************************************)
Quat(x, y, z, w) == [x |-> x, y |-> y, z |-> z, w |-> w]
Float3(x, y, z) == [x |-> x, y |-> y, z |-> z]
QuatIdentity == Quat(0, 0, 0, One)

\* 1e-10f and 1e-6f lie strictly between 0 and the smallest positive value the
\* model carries, so "x < eps" is "x <= 0" and "x > eps" is "x > 0".
BelowEps(x) == x <= 0
AboveEps(x) == x > 0

QuaternionConjugate(q) == Quat(0 - q.x, 0 - q.y, 0 - q.z, q.w)

QuaternionMultiply(a, b) ==
    Quat(FMul(a.w, b.x) + FMul(a.x, b.w) + FMul(a.y, b.z) - FMul(a.z, b.y),
         FMul(a.w, b.y) - FMul(a.x, b.z) + FMul(a.y, b.w) + FMul(a.z, b.x),
         FMul(a.w, b.z) + FMul(a.x, b.y) - FMul(a.y, b.x) + FMul(a.z, b.w),
         FMul(a.w, b.w) - FMul(a.x, b.x) - FMul(a.y, b.y) - FMul(a.z, b.z))

QuaternionNormalize(q) ==
    LET len_sq == FMul(q.x, q.x) + FMul(q.y, q.y) + FMul(q.z, q.z) + FMul(q.w, q.w)
    IN  IF BelowEps(len_sq) THEN QuatIdentity
        ELSE LET inv_len == FDiv(One, FSqrt(len_sq))
             IN  Quat(FMul(q.x, inv_len), FMul(q.y, inv_len),
                      FMul(q.z, inv_len), FMul(q.w, inv_len))

RotateVectorByQuaternion(q, v) ==
    LET qv == Quat(v.x, v.y, v.z, 0)
        q_conj == QuaternionConjugate(q)
        temp == QuaternionMultiply(q, qv)
        result == QuaternionMultiply(temp, q_conj)
    IN  Float3(result.x, result.y, result.z)

\* A 3x4 matrix is a tuple of three rows of four entries; m[i+1][j+1] is m[i][j].
BuildMatrix34(q, t) ==
    LET fTx == 2 * q.x
        fTy == 2 * q.y
        fTz == 2 * q.z
        fTwx == FMul(fTx, q.w)
        fTwy == FMul(fTy, q.w)
        fTwz == FMul(fTz, q.w)
        fTxx == FMul(fTx, q.x)
        fTxy == FMul(fTy, q.x)
        fTxz == FMul(fTz, q.x)
        fTyy == FMul(fTy, q.y)
        fTyz == FMul(fTz, q.y)
        fTzz == FMul(fTz, q.z)
    IN  << <<One - (fTyy + fTzz), fTxy - fTwz, fTxz + fTwy, t.x>>,
           <<fTxy + fTwz, One - (fTxx + fTzz), fTyz - fTwx, t.y>>,
           <<fTxz - fTwy, fTyz + fTwx, One - (fTxx + fTyy), t.z>> >>

MultiplyMatrix34(a, b) ==
    [i \in 1..3 |->
        <<FMul(a[i][1], b[1][1]) + FMul(a[i][2], b[2][1]) + FMul(a[i][3], b[3][1]),
          FMul(a[i][1], b[1][2]) + FMul(a[i][2], b[2][2]) + FMul(a[i][3], b[3][2]),
          FMul(a[i][1], b[1][3]) + FMul(a[i][2], b[2][3]) + FMul(a[i][3], b[3][3]),
          FMul(a[i][1], b[1][4]) + FMul(a[i][2], b[2][4]) + FMul(a[i][3], b[3][4])
              + a[i][4]>>]

\* The float matrix stored in the 48 bytes of a GlaMatrix34 (row-major).
MatrixOf(bytes) ==
    [i \in 1..3 |-> [j \in 1..4 |-> RdF32(bytes, 16 * (i - 1) + 4 * (j - 1))]]

ColumnMagnitude(m, j) ==
    FSqrt(FMul(m[1][j], m[1][j]) + FMul(m[2][j], m[2][j]) + FMul(m[3][j], m[3][j]))

\* Column j of the normalised rotation matrix; the unit axis when the column
\* magnitude s is not above 1e-6.
NormalizedColumn(m, j, s) ==
    IF AboveEps(s) THEN <<FDiv(m[1][j], s), FDiv(m[2][j], s), FDiv(m[3][j], s)>>
    ELSE [i \in 1..3 |-> IF i = j THEN One ELSE 0]

\* Rotation matrix (r[i][j], rows then columns) to quaternion, by the trace.
RotationToQuaternion(r) ==
    LET trace == r[1][1] + r[2][2] + r[3][3]
    IN  IF trace > 0 THEN
            LET s == FDiv(One \div 2, FSqrt(trace + One))
            IN  Quat(FMul(r[3][2] - r[2][3], s), FMul(r[1][3] - r[3][1], s),
                     FMul(r[2][1] - r[1][2], s), FDiv(One \div 4, s))
        ELSE IF r[1][1] > r[2][2] /\ r[1][1] > r[3][3] THEN
            LET s == 2 * FSqrt(One + r[1][1] - r[2][2] - r[3][3])
            IN  Quat(FMul(One \div 4, s), FDiv(r[1][2] + r[2][1], s),
                     FDiv(r[1][3] + r[3][1], s), FDiv(r[3][2] - r[2][3], s))
        ELSE IF r[2][2] > r[3][3] THEN
            LET s == 2 * FSqrt(One + r[2][2] - r[1][1] - r[3][3])
            IN  Quat(FDiv(r[1][2] + r[2][1], s), FMul(One \div 4, s),
                     FDiv(r[2][3] + r[3][2], s), FDiv(r[1][3] - r[3][1], s))
        ELSE
            LET s == 2 * FSqrt(One + r[3][3] - r[1][1] - r[2][2])
            IN  Quat(FDiv(r[1][3] + r[3][1], s), FDiv(r[2][3] + r[3][2], s),
                     FMul(One \div 4, s), FDiv(r[2][1] - r[1][2], s))

\* The normalised rotation part of m: r[i][j] = m[i][j] / |column j|.
NormalizedRotation(m) ==
    LET c1 == NormalizedColumn(m, 1, ColumnMagnitude(m, 1))
        c2 == NormalizedColumn(m, 2, ColumnMagnitude(m, 2))
        c3 == NormalizedColumn(m, 3, ColumnMagnitude(m, 3))
    IN  [i \in 1..3 |-> <<c1[i], c2[i], c3[i]>>]

\* GlaParser::DecomposeMatrix: translation, rotation and scale of a GlaMatrix34.
DecomposeMatrix(m) ==
    [translation |-> Float3(m[1][4], m[2][4], m[3][4]),
     scale |-> Float3(ColumnMagnitude(m, 1), ColumnMagnitude(m, 2),
                      ColumnMagnitude(m, 3)),
     rotation |-> RotationToQuaternion(NormalizedRotation(m))]

\* GlaParser::DecomposeMatrix34: the float[3][4] version, which normalises the
\* quaternion it returns.
DecomposeMatrix34(m) ==
    [translation |-> Float3(m[1][4], m[2][4], m[3][4]),
     scale |-> Float3(ColumnMagnitude(m, 1), ColumnMagnitude(m, 2),
                      ColumnMagnitude(m, 3)),
     rotation |-> QuaternionNormalize(RotationToQuaternion(NormalizedRotation(m)))]

(***************************************************************************)
(* GlaParser::DecompressBone                                               *)
(***************************************************************************)
read_u16(d, off) == d[off + 1] + 256 * d[off + 2]

\* DecompressBone reading the quaternion shorts in the order x, y, z, w.
DecompressBoneVectorFirst(d) ==
    LET qx_raw == read_u16(d, 0)
        qy_raw == read_u16(d, 2)
        qz_raw == read_u16(d, 4)
        qw_raw == read_u16(d, 6)
        qx == Exact(qx_raw * One, QUAT_SCALE) - QUAT_OFFSET * One
        qy == Exact(qy_raw * One, QUAT_SCALE) - QUAT_OFFSET * One
        qz == Exact(qz_raw * One, QUAT_SCALE) - QUAT_OFFSET * One
        qw == Exact(qw_raw * One, QUAT_SCALE) - QUAT_OFFSET * One
        len_sq == FMul(qx, qx) + FMul(qy, qy) + FMul(qz, qz) + FMul(qw, qw)
        inv_len == FDiv(One, FSqrt(len_sq))
    IN  [rotation |->
             IF AboveEps(len_sq)
             THEN Quat(FMul(qx, inv_len), FMul(qy, inv_len),
                       FMul(qz, inv_len), FMul(qw, inv_len))
             ELSE Quat(0, 0, 0, One),
         translation |->
             Float3(Exact(read_u16(d, 8) * One, TRANS_SCALE) - TRANS_OFFSET * One,
                    Exact(read_u16(d, 10) * One, TRANS_SCALE) - TRANS_OFFSET * One,
                    Exact(read_u16(d, 12) * One, TRANS_SCALE) - TRANS_OFFSET * One)]

DecompressBone(d) ==
    LET qw_raw == read_u16(d, 0)
        qx_raw == read_u16(d, 2)
        qy_raw == read_u16(d, 4)
        qz_raw == read_u16(d, 6)
        qx == Exact(qx_raw * One, QUAT_SCALE) - QUAT_OFFSET * One
        qy == Exact(qy_raw * One, QUAT_SCALE) - QUAT_OFFSET * One
        qz == Exact(qz_raw * One, QUAT_SCALE) - QUAT_OFFSET * One
        qw == Exact(qw_raw * One, QUAT_SCALE) - QUAT_OFFSET * One
        len_sq == FMul(qx, qx) + FMul(qy, qy) + FMul(qz, qz) + FMul(qw, qw)
        inv_len == FDiv(One, FSqrt(len_sq))
        tx_raw == read_u16(d, 8)
        ty_raw == read_u16(d, 10)
        tz_raw == read_u16(d, 12)
    IN  [rotation |->
             IF AboveEps(len_sq)
             THEN Quat(FMul(qx, inv_len), FMul(qy, inv_len),
                       FMul(qz, inv_len), FMul(qw, inv_len))
             ELSE Quat(0, 0, 0, One),
         translation |->
             Float3(Exact(tx_raw * One, TRANS_SCALE) - TRANS_OFFSET * One,
                    Exact(ty_raw * One, TRANS_SCALE) - TRANS_OFFSET * One,
                    Exact(tz_raw * One, TRANS_SCALE) - TRANS_OFFSET * One)]

(***************************************************************************)
(* Input files.  A file is described by the values of its header fields,   *)
(* its bone-offset table, its bone records, its frame-index entries and    *)
(* its compressed pool, and FileBytes lays the description out as the      *)
(* on-disk format of gla_format.h does.                                    *)
(***************************************************************************)
RECURSIVE Flatten(_)
Flatten(ss) == IF ss = <<>> THEN <<>> ELSE Head(ss) \o Flatten(Tail(ss))

\* Bind poses (bone to model space): a signed-permutation rotation and an
\* integer translation, rows of four floats.
PoseA == << <<0, 0, 1, 1>>, <<1, 0, 0, 2>>, <<0, 1, 0, 3>> >>
PoseB == << <<1, 0, 0, 4>>, <<0, -1, 0, 0>>, <<0, 0, -1, -2>> >>
PoseC == << <<1, 0, 0, 0>>, <<0, 1, 0, 5>>, <<0, 0, 1, 0>> >>
Poses == <<PoseA, PoseB, PoseC>>

MatrixBytes(m) == Flatten([k \in 1..12 |-> F32Bytes(m[((k - 1) \div 4) + 1][((k - 1) % 4) + 1])])

\* One GlaSkelBoneHeader: name[64], flags, parent, base_pose, base_pose_inv,
\* num_children.  Names are one character long.
BoneBytes(b) ==
    <<b.name>> \o Zeros(MAX_BONE_NAME - 1) \o LE32(0) \o LE32(b.parent)
        \o MatrixBytes(b.pose) \o Zeros(48) \o LE32(0)

\* One CompressedBone from its seven shorts in file order.
PoolBytes(r) == Flatten([k \in 1..7 |-> LE16(r[k])])

\* Compressed records: the identity; (1/2,1/2,1/2,1/2) with translation
\* (1,0,-2); a half turn about x with translation (1/64,1/2,0).  File order of
\* the shorts is w, x, y, z, tx, ty, tz.
Rec0 == <<49149, 32766, 32766, 32766, 32768, 32768, 32768>>
Rec1 == <<49149, 49149, 49149, 49149, 32832, 32768, 32640>>
Rec2 == <<32766, 49149, 32766, 32766, 32769, 32800, 32768>>
PoolRecs == <<Rec0, Rec1, Rec2>>

HeaderBytes(d) ==
    LE32(d.ident) \o LE32(d.version) \o Zeros(MAX_BONE_NAME) \o F32Bytes(1)
        \o LE32(d.num_frames) \o LE32(d.ofs_frames) \o LE32(d.num_bones)
        \o LE32(d.ofs_comp_bone_pool) \o LE32(d.ofs_skel) \o LE32(d.ofs_end)

FileBytes(d) ==
    LET all == HeaderBytes(d)
                 \o Flatten([i \in 1..Len(d.offsets) |-> LE32(d.offsets[i])])
                 \o Flatten([i \in 1..Len(d.bones) |-> BoneBytes(d.bones[i])])
                 \o Flatten([i \in 1..Len(d.frames) |-> LE24(d.frames[i])])
                 \o Flatten([i \in 1..Len(d.pool) |-> PoolBytes(d.pool[i])])
                 \o Zeros(d.pad)
    IN  IF d.size < Len(all) THEN SubSeq(all, 1, d.size) ELSE all

\* Where the sections of a file with nb bones, nf frames fall when they are
\* laid out one after the other.
FramesAt(nb) == HeaderSize + 4 * nb + BoneHeaderSize * nb
PoolAt(nb, nf) == FramesAt(nb) + FrameIndexSize * nf * nb
EndAt(nb, nf, np) == PoolAt(nb, nf) + CompressedBoneSize * np

BoneNames == <<97, 98, 99>>      \* "a", "b", "c"

\* The well-formed file with the given parent indices and frame-index entries:
\* skeleton first (ofs_skel right after the header), then frames, then pool.
WellFormed(parents, nf, frames) ==
    LET nb == Len(parents)
    IN  [ident |-> GLA_IDENT, version |-> GLA_VERSION,
         num_frames |-> nf, ofs_frames |-> FramesAt(nb),
         num_bones |-> nb, ofs_comp_bone_pool |-> PoolAt(nb, nf),
         ofs_skel |-> HeaderSize, ofs_end |-> EndAt(nb, nf, Len(PoolRecs)),
         offsets |-> [i \in 1..nb |-> 4 * nb + BoneHeaderSize * (i - 1)],
         bones |-> [i \in 1..nb |-> [name |-> BoneNames[i], parent |-> parents[i],
                                     pose |-> Poses[i]]],
         frames |-> frames, pool |-> PoolRecs, pad |-> 0,
         size |-> EndAt(nb, nf, Len(PoolRecs))]

(***************************************************************************)
(* Memory.  A pointer into the file buffer is [epoch, off]: the buffer it  *)
(* was taken from and its offset from that buffer's first byte.  A read    *)
(* outside the current buffer, or through a pointer taken from an earlier  *)
(* buffer, is undefined behaviour: it yields WildByte bytes or a fault     *)
(* (the caller draws which).                                               *)
(***************************************************************************)
NullPtr == [epoch |-> -1, off |-> 0]
WildByte == 0

InBuffer(data, lo, n) == lo >= 0 /\ lo + n <= Len(data)
ByteAt(data, addr) ==
    IF addr >= 0 /\ addr < Len(data) THEN data[addr + 1] ELSE WildByte
Mem(data, lo, n) == [k \in 1..n |-> ByteAt(data, lo + k - 1)]

\* The record of one read: what it was for and the bytes [lo, hi) it touched,
\* relative to the buffer the pointer was taken from; valid iff inside the
\* current buffer.
ReadOf(kind, lo, n, valid) == [kind |-> kind, lo |-> lo, hi |-> lo + n, valid |-> valid]

(***************************************************************************)
(* GlaParser::ParseHeader                                                  *)
(***************************************************************************)
ZeroHeader ==
    [ident |-> 0, version |-> 0, num_frames |-> 0, ofs_frames |-> 0, num_bones |-> 0,
     ofs_comp_bone_pool |-> 0, ofs_skel |-> 0, ofs_end |-> 0]

\* memcpy(&m_header, m_file_data.data(), sizeof(GlaHeader)); name and scale are
\* only ever logged and are not carried.
HeaderOf(data) ==
    [ident |-> RdI32(data, OfsIdent), version |-> RdI32(data, OfsVersion),
     num_frames |-> RdI32(data, OfsNumFrames), ofs_frames |-> RdI32(data, OfsOfsFrames),
     num_bones |-> RdI32(data, OfsNumBones),
     ofs_comp_bone_pool |-> RdI32(data, OfsOfsCompBonePool),
     ofs_skel |-> RdI32(data, OfsOfsSkel), ofs_end |-> RdI32(data, OfsOfsEnd)]

\* The magic 0x32474C41, whose little-endian bytes are 41 4C 47 32 ("ALG2").
SpecMagic == RdI32(<<65, 76, 71, 50>>, 0)

\* ParseHeader comparing ident with 0x32474C41 instead of GLA_IDENT.
ParseHeaderSpecMagic(data, header) ==
    IF Len(data) < HeaderSize THEN [ok |-> FALSE, header |-> header]
    ELSE LET h == HeaderOf(data)
         IN  IF h.ident # SpecMagic THEN [ok |-> FALSE, header |-> h]
             ELSE IF h.version # GLA_VERSION THEN [ok |-> FALSE, header |-> h]
             ELSE [ok |-> TRUE, header |-> h]

\* ParseHeader without the version comparison.
ParseHeaderNoVersion(data, header) ==
    IF Len(data) < HeaderSize THEN [ok |-> FALSE, header |-> header]
    ELSE LET h == HeaderOf(data)
         IN  IF h.ident # GLA_IDENT THEN [ok |-> FALSE, header |-> h]
             ELSE [ok |-> TRUE, header |-> h]

ParseHeader(data, header) ==
    IF Len(data) < HeaderSize THEN [ok |-> FALSE, header |-> header]
    ELSE LET h == HeaderOf(data)
         IN  IF h.ident # GLA_IDENT THEN [ok |-> FALSE, header |-> h]
             ELSE IF h.version # GLA_VERSION THEN [ok |-> FALSE, header |-> h]
             ELSE [ok |-> TRUE, header |-> h]

(***************************************************************************)
(* GlaParser::ParseSkeleton                                                *)
(***************************************************************************)
\* The GlaBone copied from the GlaSkelBoneHeader at byte lo of the buffer; the
\* matrices are copied as bytes and read as floats where they are used.
BoneAt(data, lo) ==
    LET rec == Mem(data, lo, BoneHeaderSize)
    IN  [name |-> rec[1], parent |-> RdI32(rec, BoneOfsParent),
         base_pose |-> SubSeq(rec, BoneOfsBasePose + 1, BoneOfsBasePose + 48)]

\* The loop over the bone-offset table, from bone i on: [ok, bones, reads].
RECURSIVE ParseBones(_, _, _, _, _)
ParseBones(data, header, i, bones, reads) ==
    IF i >= header.num_bones THEN [ok |-> TRUE, bones |-> bones, reads |-> reads]
    ELSE LET bone_offset == RdI32(data, HeaderSize + 4 * i)
             bone_data == HeaderSize + bone_offset
             rd == reads \cup {ReadOf("offset", HeaderSize + 4 * i, 4, TRUE)}
         IN  IF bone_data + BoneHeaderSize > Len(data)
             THEN [ok |-> FALSE, bones |-> bones, reads |-> rd]
             ELSE ParseBones(data, header, i + 1,
                             Append(bones, BoneAt(data, bone_data)),
                             rd \cup {ReadOf("bone", bone_data, BoneHeaderSize,
                                             InBuffer(data, bone_data, BoneHeaderSize))})

\* [ok, threw, bones, reads]; threw: m_bones.reserve of a negative count,
\* converted to size_t, throws std::length_error, which nothing catches.
ParseSkeleton(data, header, bones) ==
    IF header.ofs_skel <= 0 \/ header.ofs_skel >= Len(data)
    THEN [ok |-> FALSE, threw |-> FALSE, bones |-> bones, reads |-> {}]
    ELSE IF header.num_bones < 0
    THEN [ok |-> FALSE, threw |-> TRUE, bones |-> <<>>, reads |-> {}]
    ELSE IF HeaderSize + header.num_bones * 4 > Len(data)
    THEN [ok |-> FALSE, threw |-> FALSE, bones |-> <<>>, reads |-> {}]
    ELSE LET r == ParseBones(data, header, 0, <<>>, {})
         IN  [ok |-> r.ok, threw |-> FALSE, bones |-> r.bones, reads |-> r.reads]

(***************************************************************************)
(* GlaParser::LoadFrameIndices, GlaParser::LoadCompressedBonePool          *)
(***************************************************************************)
\* [ok, set, ptr, size, wrapped]: set tells whether m_frame_data and
\* m_frame_data_size were assigned.  The size is the size_t product; when it
\* wraps (a negative count) the pointer sum m_frame_data + m_frame_data_size
\* overflows, which is undefined: wrapPasses is the outcome of the comparison.
LoadFrameIndices(data, header, ep, wrapPasses) ==
    IF header.ofs_frames <= 0 \/ header.ofs_frames >= Len(data)
    THEN [ok |-> FALSE, set |-> FALSE, ptr |-> NullPtr, size |-> 0, wrapped |-> FALSE]
    ELSE LET frame_entry_size == header.num_bones * FrameIndexSize
             size == header.num_frames * frame_entry_size
             wrapped == size < 0
             past == IF wrapped THEN ~wrapPasses
                     ELSE header.ofs_frames + size > Len(data)
         IN  [ok |-> ~past, set |-> TRUE,
              ptr |-> [epoch |-> ep, off |-> header.ofs_frames], size |-> size,
              wrapped |-> wrapped]

\* [ok, ptr, size]: the pool's size is the size_t difference pool_end - ofs.
LoadCompressedBonePool(data, header, ep) ==
    IF header.ofs_comp_bone_pool <= 0 \/ header.ofs_comp_bone_pool >= Len(data)
    THEN [ok |-> FALSE, ptr |-> NullPtr, size |-> 0]
    ELSE LET pool_end == IF header.ofs_skel > 0 THEN header.ofs_skel ELSE Len(data)
         IN  [ok |-> TRUE,
              ptr |-> [epoch |-> ep, off |-> header.ofs_comp_bone_pool],
              size |-> pool_end - header.ofs_comp_bone_pool]

(***************************************************************************)
(* GlaParser::Load: the state and result of Load of the bytes data, as a   *)
(* record of the new member values.  stages lists the parse steps entered. *)
(***************************************************************************)
\* A path that cannot be opened (no byte is -1).
NoFile == <<-1>>

\* The members as a record, with the result of the call.
Members(status, stages, reads) ==
    [file_data |-> m_file_data, header |-> m_header, bones |-> m_bones,
     frame_data |-> m_frame_data, bone_pool |-> m_bone_pool,
     frame_data_size |-> m_frame_data_size, bone_pool_size |-> m_bone_pool_size,
     capacity |-> capacity, epoch |-> epoch,
     status |-> status, stages |-> stages, reads |-> reads]

\* Load from the call of LoadCompressedBonePool on: s is the record after
\* LoadFrameIndices returned true, bp the result of LoadCompressedBonePool.
LoadAfterFrames(s, bp) ==
    [s EXCEPT !.bone_pool = IF bp.ok THEN bp.ptr ELSE @,
              !.bone_pool_size = IF bp.ok THEN bp.size ELSE @,
              !.stages = Append(@, "LoadCompressedBonePool"),
              !.status = IF bp.ok THEN "ok" ELSE "fail"]

\* Load from the call of LoadFrameIndices on: s is the record after
\* ParseSkeleton returned true, fi the result of LoadFrameIndices.
LoadAfterSkeleton(data, s, fi) ==
    IF ~fi.ok
    THEN [s EXCEPT !.frame_data = IF fi.set THEN fi.ptr ELSE @,
                   !.frame_data_size = IF fi.set THEN fi.size ELSE @,
                   !.stages = Append(@, "LoadFrameIndices")]
    ELSE LoadAfterFrames([s EXCEPT !.frame_data = fi.ptr,
                                   !.frame_data_size = fi.size,
                                   !.stages = Append(@, "LoadFrameIndices")],
                         LoadCompressedBonePool(data, s.header, s.epoch))

\* Load from the call of ParseSkeleton on: s is the record after ParseHeader
\* returned true, ps the result of ParseSkeleton.
LoadAfterHeader(data, wrapPasses, s, ps) ==
    IF ~ps.ok
    THEN [s EXCEPT !.bones = ps.bones, !.reads = @ \cup ps.reads,
                   !.stages = Append(@, "ParseSkeleton"),
                   !.status = IF ps.threw THEN "throw" ELSE "fail"]
    ELSE LoadAfterSkeleton(data,
                           [s EXCEPT !.bones = ps.bones, !.reads = @ \cup ps.reads,
                                     !.stages = Append(@, "ParseSkeleton")],
                           LoadFrameIndices(data, s.header, s.epoch, wrapPasses))

\* Load from the call of ParseHeader on: s is the record after the file has
\* been read into m_file_data, ph the result of ParseHeader.
LoadAfterRead(data, wrapPasses, s, ph) ==
    IF ~ph.ok THEN [s EXCEPT !.header = ph.header]
    ELSE LoadAfterHeader(data, wrapPasses, [s EXCEPT !.header = ph.header],
                         ParseSkeleton(data, ph.header, m_bones))

\* m_file_data.resize(file_size) allocates a new buffer when the size exceeds
\* the capacity; pointers into the old one then dangle.
LoadResult(data, wrapPasses) ==
    IF data = NoFile THEN Members("fail", <<>>, {})
    ELSE LoadAfterRead(data, wrapPasses,
             [Members("fail", <<"ParseHeader">>,
                      IF Len(data) < HeaderSize THEN {}
                      ELSE {ReadOf("header", 0, HeaderSize, TRUE)})
                 EXCEPT !.file_data = data,
                        !.epoch = IF Len(data) > capacity THEN @ + 1 ELSE @,
                        !.capacity = IF Len(data) > capacity THEN Len(data) ELSE @],
             ParseHeader(data, m_header))

(***************************************************************************)
(* GlaParser::ReadFrameIndex, GlaParser::GetBoneTransform                  *)
(***************************************************************************)
\* n bytes at ptr + k, and whether the read lies inside the current buffer.
PtrValid(ptr, k, n) == ptr.epoch = epoch /\ InBuffer(m_file_data, ptr.off + k, n)
PtrMem(ptr, k, n) ==
    IF ptr.epoch = epoch THEN Mem(m_file_data, ptr.off + k, n)
    ELSE [i \in 1..n |-> WildByte]

\* [idx, reads]
ReadFrameIndex(frame, bone) ==
    IF frame < 0 \/ frame >= m_header.num_frames
        \/ bone < 0 \/ bone >= m_header.num_bones
    THEN [idx |-> 0, reads |-> {}]
    ELSE LET offset == frame * m_header.num_bones * FrameIndexSize
                         + bone * FrameIndexSize
             p == PtrMem(m_frame_data, offset, FrameIndexSize)
         IN  IF UGt(offset + FrameIndexSize, m_frame_data_size)
             THEN [idx |-> 0, reads |-> {}]
             ELSE [idx |-> p[1] + 256 * p[2] + 65536 * p[3],
                   reads |-> {ReadOf("index", m_frame_data.off + offset, FrameIndexSize,
                                     PtrValid(m_frame_data, offset, FrameIndexSize))}]

\* [status, value, reads]: status "ok" is the true return, "fail" the false one.
NoValue == <<>>
GetBoneTransform(frame_index, bone_index) ==
    IF frame_index < 0 \/ frame_index >= m_header.num_frames
        \/ bone_index < 0 \/ bone_index >= m_header.num_bones
    THEN [status |-> "fail", value |-> NoValue, reads |-> {}]
    ELSE LET fi == ReadFrameIndex(frame_index, bone_index)
             pool_offset == fi.idx * CompressedBoneSize
         IN  IF UGt(pool_offset + CompressedBoneSize, m_bone_pool_size)
             THEN [status |-> "fail", value |-> NoValue, reads |-> fi.reads]
             ELSE [status |-> "ok",
                   value |-> DecompressBone(PtrMem(m_bone_pool, pool_offset,
                                                   CompressedBoneSize)),
                   reads |-> fi.reads \cup
                       {ReadOf("pool", m_bone_pool.off + pool_offset, CompressedBoneSize,
                               PtrValid(m_bone_pool, pool_offset, CompressedBoneSize))}]

(***************************************************************************)
(* GlaParser::GetLocalBindPoseTransform                                    *)
(***************************************************************************)
InBones(i) == i >= 0 /\ i < Len(m_bones)

\* The local transform of a child from the decomposed world bind poses of its
\* parent (p) and of itself (c): local_rot = inverse(parent_rot) * child_rot,
\* local_pos = inverse(parent_rot) * (child_pos - parent_pos), scale 1.
LocalFromWorld(p, c, parent_rot_inv) ==
    [rotation |-> QuaternionNormalize(QuaternionMultiply(parent_rot_inv, c.rotation)),
     translation |-> RotateVectorByQuaternion(parent_rot_inv,
                         Float3(c.translation.x - p.translation.x,
                                c.translation.y - p.translation.y,
                                c.translation.z - p.translation.z)),
     scale |-> Float3(One, One, One)]

ChildBindPose(p, c) == LocalFromWorld(p, c, QuaternionConjugate(p.rotation))

\* The bone's transform given the bone record; a root's is its decomposed bind
\* pose.  status "ub": m_bones[bone.parent] is an out-of-range element access.
LocalBindPoseOf(bone) ==
    IF bone.parent < 0
    THEN [status |-> "ok", value |-> DecomposeMatrix(MatrixOf(bone.base_pose))]
    ELSE IF ~InBones(bone.parent) THEN [status |-> "ub", value |-> NoValue]
    ELSE [status |-> "ok",
          value |-> ChildBindPose(
                        DecomposeMatrix(MatrixOf(m_bones[bone.parent + 1].base_pose)),
                        DecomposeMatrix(MatrixOf(bone.base_pose)))]

GetLocalBindPoseTransform(bone_index) ==
    IF ~InBones(bone_index) THEN [status |-> "fail", value |-> NoValue]
    ELSE LocalBindPoseOf(m_bones[bone_index + 1])

(***************************************************************************)
(* GlaParser::ComputeBoneMatrix, GlaParser::ComputeAnimatedWorldTransform  *)
(***************************************************************************)
\* [status, m, reads].  status "ub": an out-of-range m_bones access, or the
\* use of anim_trans/anim_rot left uninitialised by a failed GetBoneTransform;
\* "overflow": the recursion does not end (depth counts the calls on the
\* stack; a chain longer than the bone table repeats a bone and never ends).
\* The matrix of a bone from its record, the result anim of GetBoneTransform,
\* the matrix local_anim built from anim, the result parent of the call for
\* the parent bone, and the product of the parent's matrix with local_anim.
BoneMatrixOf(bone, anim, local_anim, parent, product) ==
    IF bone.parent < 0
    THEN IF anim.status # "ok"
         THEN [status |-> "ub", m |-> NoValue, reads |-> anim.reads]
         ELSE [status |-> "ok", m |-> local_anim, reads |-> anim.reads]
    ELSE IF parent.status # "ok"
         THEN [status |-> parent.status, m |-> NoValue,
               reads |-> anim.reads \cup parent.reads]
    ELSE IF anim.status # "ok"
         THEN [status |-> "ub", m |-> NoValue, reads |-> anim.reads \cup parent.reads]
    ELSE [status |-> "ok", m |-> product, reads |-> anim.reads \cup parent.reads]

\* ComputeBoneMatrix multiplying local_anim by the parent's matrix, child first.
ParentAfterLocal(bone, anim, local_anim, parent) ==
    BoneMatrixOf(bone, anim, local_anim, parent, MultiplyMatrix34(local_anim, parent.m))
RECURSIVE ComputeBoneMatrixChildFirst(_, _, _)
ChildFirstWithAnim(frame_index, bone, anim, depth) ==
    ParentAfterLocal(bone, anim,
                     BuildMatrix34(anim.value.rotation, anim.value.translation),
                     ComputeBoneMatrixChildFirst(frame_index, bone.parent, depth + 1))
ComputeBoneMatrixChildFirst(frame_index, bone_index, depth) ==
    IF ~InBones(bone_index) THEN [status |-> "ub", m |-> NoValue, reads |-> {}]
    ELSE IF depth > Len(m_bones) THEN [status |-> "overflow", m |-> NoValue, reads |-> {}]
    ELSE ChildFirstWithAnim(frame_index, m_bones[bone_index + 1],
                            GetBoneTransform(frame_index, bone_index), depth)

\* parent_matrix * local_anim for a bone with a parent.
ParentTimesLocal(bone, anim, local_anim, parent) ==
    BoneMatrixOf(bone, anim, local_anim, parent, MultiplyMatrix34(parent.m, local_anim))

RECURSIVE ComputeBoneMatrix(_, _, _)
\* The body of ComputeBoneMatrix once GetBoneTransform has returned anim.
BoneMatrixWithAnim(frame_index, bone, anim, depth) ==
    ParentTimesLocal(bone, anim,
                     BuildMatrix34(anim.value.rotation, anim.value.translation),
                     ComputeBoneMatrix(frame_index, bone.parent, depth + 1))
ComputeBoneMatrix(frame_index, bone_index, depth) ==
    IF ~InBones(bone_index) THEN [status |-> "ub", m |-> NoValue, reads |-> {}]
    ELSE IF depth > Len(m_bones) THEN [status |-> "overflow", m |-> NoValue, reads |-> {}]
    ELSE BoneMatrixWithAnim(frame_index, m_bones[bone_index + 1],
                            GetBoneTransform(frame_index, bone_index), depth)

\* [status, value, reads], value = [world_pos, world_rot].
WorldTransformOf(world_matrix) ==
    [world_pos |-> Float3(world_matrix[1][4], world_matrix[2][4], world_matrix[3][4]),
     world_rot |-> DecomposeMatrix34(world_matrix).rotation]

\* The result given the result bm of ComputeBoneMatrix:
\* world_matrix = bone_matrix * base_pose.
AnimatedWorldOf(bm, bone_index) ==
    IF bm.status # "ok" THEN [status |-> bm.status, value |-> NoValue, reads |-> bm.reads]
    ELSE [status |-> "ok",
          value |-> WorldTransformOf(
                        MultiplyMatrix34(bm.m, MatrixOf(m_bones[bone_index + 1].base_pose))),
          reads |-> bm.reads]

ComputeAnimatedWorldTransform(frame_index, bone_index) ==
    AnimatedWorldOf(ComputeBoneMatrix(frame_index, bone_index, 0), bone_index)

(***************************************************************************)
(* coordinate_convert.h.  SCALE_FACTOR is 0.0254 = 254/10000: a converted  *)
(* position is carried in units of 1/(64*10000), so that the scaling is    *)
(* the exact multiplication by ScaleNum.                                   *)
(***************************************************************************)
ScaleNum == 254
ConvertPosition(v) == Float3(v.x * ScaleNum, v.z * ScaleNum, (0 - v.y) * ScaleNum)
\* ConvertQuaternion mapping (x, y, z, w) to (x, -z, y, w).
ConvertQuaternionInverse(q) == Quat(q.x, 0 - q.z, q.y, q.w)
ConvertQuaternion(q) == Quat(q.x, q.z, 0 - q.y, q.w)
NormalizeQuaternion(q) ==
    LET len_sq == FMul(q.x, q.x) + FMul(q.y, q.y) + FMul(q.z, q.z) + FMul(q.w, q.w)
    IN  IF BelowEps(len_sq) THEN QuatIdentity
        ELSE LET inv_len == FDiv(One, FSqrt(len_sq))
             IN  Quat(FMul(q.x, inv_len), FMul(q.y, inv_len),
                      FMul(q.z, inv_len), FMul(q.w, inv_len))

(***************************************************************************)
(* GlaImporter::Import(RawSkeleton), GlaImporter::BuildJointRecursive.     *)
(* The RawSkeleton tree is carried as the list of its joints in depth-     *)
(* first order, each with the index in that list of the joint whose        *)
(* children vector holds it (-1 for an element of roots).                  *)
(***************************************************************************)
\* The joint set from the bone's name and its local bind pose.
JointFrom(name, local, bone_index, parentJoint) ==
    [name |-> name, bone |-> bone_index, parent |-> parentJoint,
     translation |-> ConvertPosition(local.translation),
     rotation |-> NormalizeQuaternion(ConvertQuaternion(local.rotation)),
     scale |-> Float3(One, One, One)]
JointOf(bone_index, parentJoint) ==
    JointFrom(m_bones[bone_index + 1].name, GetLocalBindPoseTransform(bone_index).value,
              bone_index, parentJoint)

\* The joints list after the joint of bone_index, and its subtree, have been
\* added to it under parentJoint.  BuildChildren is the loop over bones from i.
RECURSIVE BuildJointRecursive(_, _, _)
RECURSIVE BuildChildren(_, _, _, _)
BuildJointRecursive(bone_index, parentJoint, joints) ==
    BuildChildren(bone_index, 0, Len(joints),
                  Append(joints, JointOf(bone_index, parentJoint)))
BuildChildren(bone_index, i, self, joints) ==
    IF i >= Len(m_bones) THEN joints
    ELSE IF m_bones[i + 1].parent = bone_index
         THEN BuildChildren(bone_index, i + 1, self,
                            BuildJointRecursive(i, self, joints))
         ELSE BuildChildren(bone_index, i + 1, self, joints)

\* RootIndices taking every bone with a negative parent index for a root.
RECURSIVE RootIndicesNegative(_)
RootIndicesNegative(i) ==
    IF i >= Len(m_bones) THEN <<>>
    ELSE IF m_bones[i + 1].parent < 0 THEN <<i>> \o RootIndicesNegative(i + 1)
    ELSE RootIndicesNegative(i + 1)

\* The bones with parent == -1, in index order.
RECURSIVE RootIndices(_)
RootIndices(i) ==
    IF i >= Len(m_bones) THEN <<>>
    ELSE IF m_bones[i + 1].parent = -1 THEN <<i>> \o RootIndices(i + 1)
    ELSE RootIndices(i + 1)

RECURSIVE BuildRoots(_, _)
BuildRoots(roots, joints) ==
    IF roots = <<>> THEN joints
    ELSE BuildRoots(Tail(roots), BuildJointRecursive(Head(roots), -1, joints))

\* RawSkeleton::Validate: the joint count is at most Skeleton::kMaxJoints.
Validate(joints) == Len(joints) <= kMaxJoints

\* [status, value]: value is the joints list left in *_skeleton.
ImportSkeleton ==
    LET root_indices == RootIndices(0)
        joints == BuildRoots(root_indices, <<>>)
    IN  IF m_bones = <<>> THEN [status |-> "fail", value |-> <<>>]
        ELSE IF root_indices = <<>> THEN [status |-> "fail", value |-> <<>>]
        ELSE IF ~Validate(joints) THEN [status |-> "fail", value |-> joints]
        ELSE [status |-> "ok", value |-> joints]

(***************************************************************************)
(* The files and arguments explored                                        *)
(***************************************************************************)
\* Frame-index entries cycling through the three pool records.
CyclicFrames(n) == [k \in 1..n |-> k % 3]

\* Two bones (root, child), two frames.
TwoBones == WellFormed(<<-1, 0>>, 2, <<1, 2, 2, 0>>)
\* The same with the skeleton offset after the pool, so that the pool size
\* ofs_skel - ofs_comp_bone_pool is the size of the three records.
PoolBounded == [TwoBones EXCEPT !.ofs_skel = TwoBones.size, !.pad = 4,
                                !.size = TwoBones.size + 4]
\* Three bones (one root, two children), ten frames.
ThreeBones == WellFormed(<<-1, 0, 0>>, 10, CyclicFrames(30))

Shapes == {<<-1, 0>>, <<-1, -1>>, <<0, -1>>, <<0, 0>>, <<1, 0>>, <<-1, 1>>,
           <<-1, 5>>, <<-1, -2>>,
           <<-1, 0, 0>>, <<-1, 0, 1>>, <<1, 2, -1>>, <<-1, 2, 1>>, <<2, -1, 1>>}
ShapeFiles == {WellFormed(p, 2, CyclicFrames(2 * Len(p))) : p \in Shapes}
                 \cup {TwoBones, ThreeBones}

HeaderFiles ==
    {[TwoBones EXCEPT !.version = v] : v \in {0, 5, 7, -1}}
        \cup {[TwoBones EXCEPT !.ident = i] : i \in {0, SpecMagic, GLA_IDENT + 1}}
        \cup {[ThreeBones EXCEPT !.ident = SpecMagic],
              [ThreeBones EXCEPT !.version = 7],
              [TwoBones EXCEPT !.version = 7, !.num_bones = -1],
              [TwoBones EXCEPT !.ident = 0, !.offsets = <<-300, -300>>],
              [TwoBones EXCEPT !.version = 5, !.ofs_frames = -5,
                               !.ofs_comp_bone_pool = 600]}

TruncatedFiles ==
    {[TwoBones EXCEPT !.size = n] :
        n \in {0, 50, 99, 100, 107, 108, 279, 452, 463, 464, 505}}

CountFiles ==
    {[TwoBones EXCEPT !.num_bones = n] : n \in {-1, 0, 1, 200}}
        \cup {[TwoBones EXCEPT !.num_frames = n] : n \in {-1, 0, 1, 3, 1000}}

OffsetFiles ==
    {[TwoBones EXCEPT !.ofs_skel = n] : n \in {-5, 0, 470, 478, 505, 506, 600}}
        \cup {[TwoBones EXCEPT !.ofs_frames = n] : n \in {-5, 0, 1, 500, 506, 600}}
        \cup {[TwoBones EXCEPT !.ofs_comp_bone_pool = n] :
                 n \in {-5, 0, 478, 492, 506, 600}}

BoneOffsetFiles ==
    {[TwoBones EXCEPT !.offsets = o] :
        o \in {<<8, -300>>, <<8, IntMin>>, <<8, 8>>, <<8, 235>>, <<8, 100000>>,
               <<-300, 180>>}}

IndexFiles ==
    {[TwoBones EXCEPT !.frames = <<3, 2, 2, 0>>],
     [TwoBones EXCEPT !.frames = <<1, 2, 16777215, 0>>],
     PoolBounded,
     [PoolBounded EXCEPT !.frames = <<3, 2, 2, 0>>],
     [PoolBounded EXCEPT !.frames = <<1, 2, 16777215, 0>>]}

FileDescs == ShapeFiles \cup HeaderFiles \cup TruncatedFiles \cup CountFiles
                \cup OffsetFiles \cup BoneOffsetFiles \cup IndexFiles
Files == {FileBytes(d) : d \in FileDescs} \cup {NoFile}

\* The files loaded into a parser that has already loaded one.
ReloadFiles ==
    {FileBytes(d) : d \in {TwoBones, [TwoBones EXCEPT !.version = 7]}}

QueryFrames == {-1, 0, 1, 2}
QueryBones == {-1, 0, 1, 2}

(***************************************************************************)
(* The parser as a state machine                                           *)
(***************************************************************************)
Call(op, frame, bone, r) ==
    [op |-> op, frame |-> frame, bone |-> bone, status |-> r.status,
     value |-> r.value, stages |-> r.stages, reads |-> r.reads]

\* Whether the call may have faulted: after an invalid read, a fault is one of
\* the outcomes; an uncaught exception or an unbounded recursion ends the
\* process.
MayFault(r) == r.status = "ub" \/ \E rd \in r.reads : ~rd.valid
MustFault(r) == r.status \in {"throw", "overflow"}
Faults(r) == IF MustFault(r) THEN {TRUE} ELSE IF MayFault(r) THEN BOOLEAN ELSE {FALSE}

Init ==
    /\ m_file_data = <<>>
    /\ m_header = ZeroHeader
    /\ m_bones = <<>>
    /\ m_frame_data = NullPtr
    /\ m_bone_pool = NullPtr
    /\ m_frame_data_size = 0
    /\ m_bone_pool_size = 0
    /\ capacity = 0
    /\ epoch = 0
    /\ loads = 0
    /\ loaded = FALSE
    /\ m_clips = <<>>
    /\ m_mappings = <<>>
    /\ m_source_bone_map = NoBones
    /\ m_target_bone_map = NoBones
    /\ retarget = NotStarted
    /\ crashed = FALSE
    /\ last = [op |-> "GlaParser", frame |-> 0, bone |-> 0, status |-> "ok",
               value |-> NoValue, stages |-> <<>>, reads |-> {}]

\* The call op(frame, bone) returns r: it is recorded, and it faults or not.
Returns(op, frame, bone, r) ==
    /\ last' = Call(op, frame, bone, r)
    /\ crashed' \in Faults(r)

\* The members take the values of the record r.
Assign(r) ==
    /\ m_file_data' = r.file_data
    /\ m_header' = r.header
    /\ m_bones' = r.bones
    /\ m_frame_data' = r.frame_data
    /\ m_bone_pool' = r.bone_pool
    /\ m_frame_data_size' = r.frame_data_size
    /\ m_bone_pool_size' = r.bone_pool_size
    /\ capacity' = r.capacity
    /\ epoch' = r.epoch
    /\ loaded' = (r.status = "ok")

Load ==
    /\ ~crashed
    /\ loads < MaxLoads
    /\ loads' = loads + 1
    /\ UNCHANGED <<m_clips, m_mappings, m_source_bone_map, m_target_bone_map, retarget>>
    /\ \E data \in (IF loads = 0 THEN Files ELSE ReloadFiles), wrapPasses \in BOOLEAN :
         \E r \in {LoadResult(data, wrapPasses)} :
            /\ Assign(r)
            /\ Returns("Load", 0, 0, [r EXCEPT !.file_data = NoValue]
                                         @@ [value |-> NoValue])

CallGetBoneTransform ==
    /\ ~crashed
    /\ \E f \in QueryFrames, b \in QueryBones :
         Returns("GetBoneTransform", f, b, GetBoneTransform(f, b) @@ [stages |-> <<>>])
    /\ UNCHANGED parserVars

CallGetLocalBindPoseTransform ==
    /\ ~crashed
    /\ \E b \in QueryBones :
         Returns("GetLocalBindPoseTransform", 0, b,
                 GetLocalBindPoseTransform(b) @@ [stages |-> <<>>, reads |-> {}])
    /\ UNCHANGED parserVars

CallComputeAnimatedWorldTransform ==
    /\ ~crashed
    /\ \E f \in QueryFrames, b \in QueryBones :
         Returns("ComputeAnimatedWorldTransform", f, b,
                 ComputeAnimatedWorldTransform(f, b) @@ [stages |-> <<>>])
    /\ UNCHANGED parserVars

CallImportSkeleton ==
    /\ ~crashed
    /\ Returns("ImportSkeleton", 0, 0, ImportSkeleton @@ [stages |-> <<>>, reads |-> {}])
    /\ UNCHANGED parserVars

Next ==
    \/ Load
    \/ CallGetBoneTransform
    \/ CallGetLocalBindPoseTransform
    \/ CallComputeAnimatedWorldTransform
    \/ CallImportSkeleton

Spec == Init /\ [][Next]_vars

(***************************************************************************)
(* Properties of Load and of skeleton import                               *)
(***************************************************************************)
\* The file with three bones (a root and two children) and ten frames, and
\* the same file carrying the magic 0x32474C41.
ThreeBonesFile == FileBytes(ThreeBones)
ThreeBonesSpecMagicFile == FileBytes([ThreeBones EXCEPT !.ident = SpecMagic])

ParentlessJoints(joints) == {j \in 1..Len(joints) : joints[j].parent = -1}

LoadedAndImported(file) ==
    m_file_data = file =>
        /\ (last.op = "Load" => last.status = "ok")
        /\ (last.op = "ImportSkeleton" =>
                /\ last.status = "ok"
                /\ Len(last.value) = 3
                /\ Cardinality(ParentlessJoints(last.value)) = 1)

\* C1 (as stated): Load accepts the well-formed file whose magic is the
\* little-endian uint32 0x32474C41, with version 6, three bones (one root and
\* two children) and ten frames, and its skeleton import yields exactly 3
\* joints of which exactly 1 is a root.
C1_SpecMagicAccepted == LoadedAndImported(ThreeBonesSpecMagicFile)

\* C1 (amended): Load accepts the well-formed file whose magic is the uint32
\* 0x41474C32 (GLA_IDENT, bytes "2LGA" in the file), with version 6, three bones
\* (one root and two children) and ten frames, and its skeleton import yields
\* exactly 3 joints of which exactly 1 is a root.
C1_IdentAccepted ==
    /\ RdI32(ThreeBonesFile, OfsIdent) = 1095191602
    /\ RdI32(ThreeBonesFile, OfsVersion) = 6
    /\ RdI32(ThreeBonesFile, OfsNumBones) = 3
    /\ RdI32(ThreeBonesFile, OfsNumFrames) = 10
    /\ LoadedAndImported(ThreeBonesFile)

C1_Witness ==
    /\ m_file_data = ThreeBonesFile
    /\ last.op = "ImportSkeleton"
    /\ last.status = "ok"
    /\ Len(last.value) = 3
    /\ Len(m_bones) = 3

\* Whether the bytes of the loaded file fail the header check: too short for a
\* header, or a magic or version other than the expected one.
HeaderMismatch(data) ==
    \/ Len(data) < 100
    \/ RdI32(data, 0) # 1095191602
    \/ RdI32(data, 4) # 6

\* C2: Load validates the magic and the version first: a file that is shorter
\* than the header or whose magic or version does not match is refused,
\* whatever the rest of it contains, and nothing but the header is read or
\* interpreted before the check has passed.
C2_HeaderCheckedFirst ==
    last.op = "Load" /\ last.stages # <<>> =>
        /\ last.stages[1] = "ParseHeader"
        /\ HeaderMismatch(m_file_data) =>
              /\ last.status = "fail"
              /\ last.stages = <<"ParseHeader">>
              /\ \A rd \in last.reads : rd.kind = "header" /\ rd.hi <= 100

C2_Witness ==
    /\ last.op = "Load"
    /\ last.status = "fail"
    /\ last.stages = <<"ParseHeader">>
    /\ Len(m_file_data) > 100
    /\ RdI32(m_file_data, 4) = 7
    /\ RdI32(m_file_data, 84) = -1

(***************************************************************************)
(* Bounds checking in Load and in GetBoneTransform                         *)
(***************************************************************************)
\* The header fields of the loaded bytes, read at their byte offsets.
FileNumFrames == RdI32(m_file_data, 76)
FileOfsFrames == RdI32(m_file_data, 80)
FileNumBones == RdI32(m_file_data, 84)
FileOfsPool == RdI32(m_file_data, 88)
FileOfsSkel == RdI32(m_file_data, 92)

\* C3 (as stated): every dereference Load makes is bounds-checked against the
\* file size before reading: no read of Load touches a byte outside the file
\* buffer, Load does not crash, and a file that declares a negative bone or
\* frame count is refused with a parse failure.
C3_LoadBoundsChecked ==
    last.op = "Load" /\ last.stages # <<>> =>
        /\ \A rd \in last.reads : rd.valid
        /\ last.status \in {"ok", "fail"}
        /\ (~HeaderMismatch(m_file_data) /\ (FileNumBones < 0 \/ FileNumFrames < 0)
               => last.status = "fail")

\* The 24-bit little-endian value at byte off of the loaded file.
FileIndexAt(off) ==
    m_file_data[off + 1] + 256 * m_file_data[off + 2] + 65536 * m_file_data[off + 3]

\* C4 (as stated): after a successful Load, GetBoneTransform(frame, bone) either
\* fails or reads the 3-byte index at frame*boneCount*3 + bone*3 of the
\* frame-index table and the 14 bytes at poolIndex*14 of the pool, all of them
\* inside the loaded file.
C4_TransformReadsInsideFile ==
    loaded /\ last.op = "GetBoneTransform" /\ last.status = "ok" =>
        LET at == FileOfsFrames + last.frame * FileNumBones * 3 + last.bone * 3
        IN  /\ \A rd \in last.reads : rd.valid
            /\ last.reads =
                  {[kind |-> "index", lo |-> at, hi |-> at + 3, valid |-> TRUE],
                   [kind |-> "pool", lo |-> FileOfsPool + FileIndexAt(at) * 14,
                    hi |-> FileOfsPool + FileIndexAt(at) * 14 + 14, valid |-> TRUE]}

\* C5 (as stated): after a Load call that returned failure the parser exposes
\* no partial or stale state: GetBones() is empty, GetNumBones() and
\* GetNumFrames() are 0, and GetBoneTransform fails for every frame and bone.
C5_NoStateAfterFailedLoad ==
    loads > 0 /\ ~loaded /\ ~crashed =>
        /\ m_bones = <<>>
        /\ m_header.num_bones = 0
        /\ m_header.num_frames = 0
        /\ (last.op = "GetBoneTransform" => last.status = "fail")

\* C6 (as stated): for a loaded file whose parent indices contain a cycle or
\* point outside the bone table, ComputeAnimatedWorldTransform and
\* GetLocalBindPoseTransform detect this and terminate: the recursion is
\* bounded and no element outside the bone table is accessed.
C6_HierarchyWalksTerminate ==
    loaded =>
        /\ (last.op = "ComputeAnimatedWorldTransform" => last.status # "overflow")
        /\ (last.op = "GetLocalBindPoseTransform" => last.status # "ub")

(***************************************************************************)
(* The imported hierarchy                                                  *)
(***************************************************************************)
\* Whether climbing the parent links from joint from reaches joint target
\* within fuel steps (joints are numbered from 0, -1 is no parent).
RECURSIVE ReachesUp(_, _, _, _)
ReachesUp(joints, from, target, fuel) ==
    IF fuel = 0 \/ from < 0 \/ from >= Len(joints) THEN FALSE
    ELSE LET p == joints[from + 1].parent
         IN  p = target \/ ReachesUp(joints, p, target, fuel - 1)

OwnAncestor(joints, j) == ReachesUp(joints, j, j, Len(joints) + 1)
NoJointOwnAncestor(joints) == \A j \in 0..(Len(joints) - 1) : ~OwnAncestor(joints, j)
BonesWithoutParent == {i \in 1..Len(m_bones) : m_bones[i].parent = -1}

\* C7 (as stated): whenever skeleton import succeeds, the hierarchy has exactly
\* one joint without a parent and no joint is its own ancestor.
C7_ExactlyOneRoot ==
    last.op = "ImportSkeleton" /\ last.status = "ok" =>
        /\ Cardinality(ParentlessJoints(last.value)) = 1
        /\ NoJointOwnAncestor(last.value)

\* C7 (amended): whenever skeleton import succeeds, the hierarchy has at least
\* one joint without a parent, exactly one for every bone whose parent index
\* is -1, and no joint is its own ancestor.
C7_RootPerParentlessBone ==
    last.op = "ImportSkeleton" /\ last.status = "ok" =>
        /\ Cardinality(ParentlessJoints(last.value)) >= 1
        /\ {last.value[j].bone + 1 : j \in ParentlessJoints(last.value)}
              = BonesWithoutParent
        /\ Cardinality(ParentlessJoints(last.value)) = Cardinality(BonesWithoutParent)
        /\ NoJointOwnAncestor(last.value)

C7_Witness ==
    /\ last.op = "ImportSkeleton"
    /\ last.status = "ok"
    /\ Cardinality(ParentlessJoints(last.value)) = 2
    /\ Len(last.value) = 2

(***************************************************************************)
(* The animated world transform                                            *)
(***************************************************************************)
\* Whether the parent chain of bone ends at a root within fuel steps without
\* leaving the bone table.
RECURSIVE ChainEnds(_, _)
ChainEnds(bone, fuel) ==
    IF ~InBones(bone) \/ fuel = 0 THEN FALSE
    ELSE m_bones[bone + 1].parent < 0 \/ ChainEnds(m_bones[bone + 1].parent, fuel - 1)

\* The bones from bone up to its root, bone first.
RECURSIVE PathUp(_)
PathUp(bone) ==
    IF m_bones[bone + 1].parent < 0 THEN <<bone>>
    ELSE <<bone>> \o PathUp(m_bones[bone + 1].parent)

\* The local animation transform of bone at frame, decoded from the bytes of
\* the file: the pool record named by the bone's frame-index entry.
LocalAnim(frame, bone) ==
    LET at == FileOfsFrames + frame * FileNumBones * 3 + bone * 3
        rec == FileOfsPool + FileIndexAt(at) * 14
    IN  DecompressBone(SubSeq(m_file_data, rec + 1, rec + 14))

\* Whether the local animation transforms of all the bones of path at frame
\* are available: GetBoneTransform succeeds for them inside the file.
Available(frame, path) ==
    \A k \in 1..Len(path) :
        LET r == GetBoneTransform(frame, path[k])
        IN  r.status = "ok" /\ \A rd \in r.reads : rd.valid

Minus(a, b) == Float3(a.x - b.x, a.y - b.y, a.z - b.z)

\* The image of point p under the 3x4 matrix m.
MatImage(m, p) ==
        Float3(FMul(m[1][1], p.x) + FMul(m[1][2], p.y) + FMul(m[1][3], p.z) + m[1][4],
               FMul(m[2][1], p.x) + FMul(m[2][2], p.y) + FMul(m[2][3], p.z) + m[2][4],
               FMul(m[3][1], p.x) + FMul(m[3][2], p.y) + FMul(m[3][3], p.z) + m[3][4])

\* The image of point p under the local animation transforms of path, the
\* first bone of path applied first and its root last.
RECURSIVE AnimImage(_, _, _)
AnimImage(frame, path, p) ==
    IF path = <<>> THEN p
    ELSE LET t == LocalAnim(frame, Head(path))
         IN  AnimImage(frame, Tail(path),
                       MatImage(BuildMatrix34(t.rotation, t.translation), p))

\* The image of p under bindPose(bone) followed by the local animation
\* transforms from bone up to the root.
WorldImage(frame, bone, p) ==
    AnimImage(frame, PathUp(bone), MatImage(MatrixOf(m_bones[bone + 1].base_pose), p))

Origin == Float3(0, 0, 0)
Dot(a, b) == FMul(a.x, b.x) + FMul(a.y, b.y) + FMul(a.z, b.z)
Cross(a, b) == Float3(FMul(a.y, b.z) - FMul(a.z, b.y), FMul(a.z, b.x) - FMul(a.x, b.z),
                      FMul(a.x, b.y) - FMul(a.y, b.x))

\* Whether the linear part of the 3x4 matrix m is a rotation: its columns are
\* orthonormal and right-handed.
IsRotation(m) ==
    LET c1 == Float3(m[1][1], m[2][1], m[3][1])
        c2 == Float3(m[1][2], m[2][2], m[3][2])
        c3 == Float3(m[1][3], m[2][3], m[3][3])
    IN  /\ Dot(c1, c1) = One /\ Dot(c2, c2) = One /\ Dot(c3, c3) = One
        /\ Dot(c1, c2) = 0 /\ Dot(c1, c3) = 0 /\ Dot(c2, c3) = 0
        /\ Cross(c1, c2) = c3
Axes == {Float3(One, 0, 0), Float3(0, One, 0), Float3(0, 0, One)}

ZeroShort == QUAT_OFFSET * QUAT_SCALE
OneNonZero ==
    {[k \in 1..4 |-> IF k = i THEN v ELSE ZeroShort] :
        i \in 1..4, v \in {0, QUAT_SCALE, 3 * QUAT_SCALE, 4 * QUAT_SCALE}}
QuatShorts ==
    OneNonZero \cup [1..4 -> {QUAT_SCALE, 3 * QUAT_SCALE}] \cup [1..4 -> {0, 4 * QUAT_SCALE}]
        \cup {[k \in 1..4 |-> ZeroShort]}
TransShorts == {<<32768, 32768, 32768>>, <<0, 65535, 32769>>, <<32832, 32768, 32640>>}
CompressedBones == {PoolBytes(q \o t) : q \in QuatShorts, t \in TransShorts}

InitDecompress ==
    /\ m_file_data = <<>>
    /\ m_header = ZeroHeader
    /\ m_bones = <<>>
    /\ m_frame_data = NullPtr
    /\ m_bone_pool = NullPtr
    /\ m_frame_data_size = 0
    /\ m_bone_pool_size = 0
    /\ capacity = 0
    /\ epoch = 0
    /\ loads = 0
    /\ loaded = FALSE
    /\ m_clips = <<>>
    /\ m_mappings = <<>>
    /\ m_source_bone_map = NoBones
    /\ m_target_bone_map = NoBones
    /\ retarget = NotStarted
    /\ crashed = FALSE
    /\ \E comp \in CompressedBones :
          last = [op |-> "CompressedBone", frame |-> 0, bone |-> 0, status |-> "ok",
                  value |-> [comp |-> comp], stages |-> <<>>, reads |-> {}]

CallDecompressBone ==
    /\ last.op = "CompressedBone"
    /\ last' = [last EXCEPT !.op = "DecompressBone",
                            !.value = [comp |-> last.value.comp,
                                       out |-> DecompressBone(last.value.comp)]]
    /\ UNCHANGED <<parserVars, crashed>>

NextDecompress == CallDecompressBone

SpecDecompress == InitDecompress /\ [][NextDecompress]_vars

\* The k-th little-endian unsigned short of a record, k = 1..7.
ShortOf(comp, k) == comp[2 * k - 1] + 256 * comp[2 * k]
\* 16383 times the component the k-th short decodes to: raw - 2 * 16383.
Scaled(comp, k) == ShortOf(comp, k) - 32766

\* Whether the unit quaternion q is the 4-vector (x, y, z, w) renormalised, or
\* the identity when the 4-vector is zero.
Renormalised(q, x, y, z, w) ==
    IF x = 0 /\ y = 0 /\ z = 0 /\ w = 0 THEN q = Quat(0, 0, 0, 64)
    ELSE /\ q.x * q.x + q.y * q.y + q.z * q.z + q.w * q.w = 64 * 64
         /\ q.x * y = q.y * x /\ q.x * z = q.z * x /\ q.x * w = q.w * x
         /\ q.y * z = q.z * y /\ q.y * w = q.w * y /\ q.z * w = q.w * z
         /\ q.x * x >= 0 /\ q.y * y >= 0 /\ q.z * z >= 0 /\ q.w * w >= 0

C9_FallbackWitness ==
    /\ last.op = "DecompressBone"
    /\ \A k \in 1..4 : ShortOf(last.value.comp, k) = 32766
    /\ last.value.out.rotation = Quat(0, 0, 0, 64)

\* The record test_bone_decompression packs: qx, qy, qz, qw, tx, ty, tz.
TestRecord == PoolBytes(<<32766, 32766, 32766, 49149, 32768, 32768, 32768>>)

\* C10 (as stated): a record packed with the quaternion shorts in x, y, z, w
\* order (w in bytes 6-7) followed by tx, ty, tz decompresses to that
\* quaternion and translation; the record with shorts 32766, 32766, 32766,
\* 49149, 32768, 32768, 32768 yields (x,y,z,w) = (0,0,0,1) and (0,0,0).
C10_VectorFirstRecord ==
    last.op = "DecompressBone" =>
        LET comp == last.value.comp
            out == last.value.out
        IN  /\ Renormalised(out.rotation, Scaled(comp, 1), Scaled(comp, 2),
                            Scaled(comp, 3), Scaled(comp, 4))
            /\ comp = TestRecord =>
                  out.rotation = Quat(0, 0, 0, 64) /\ out.translation = Float3(0, 0, 0)

\* What DecompressBone returns for the record of the test.
C10_TestRecordDecoded ==
    /\ last.op = "DecompressBone"
    /\ last.value.comp = TestRecord
    /\ last.value.out.rotation = Quat(0, 0, 64, 0)
    /\ last.value.out.translation = Float3(0, 0, 0)

(***************************************************************************)
(* coordinate_convert.h on its own: a point or a quaternion is drawn, then *)
(* converted; a converted quaternion may be converted once more.           *)
(***************************************************************************)
MaxConversions == 2
PointCoords == {-2 * One, 0, One, 2 * One, 3 * One}
Points == {Float3(x, y, z) : x \in PointCoords, y \in PointCoords, z \in PointCoords}
QuatCoords == {0 - One, 0, One}
Quaternions ==
    {Quat(x, y, z, w) : x \in QuatCoords, y \in QuatCoords, z \in QuatCoords,
                        w \in QuatCoords}

InitConvert ==
    /\ m_file_data = <<>>
    /\ m_header = ZeroHeader
    /\ m_bones = <<>>
    /\ m_frame_data = NullPtr
    /\ m_bone_pool = NullPtr
    /\ m_frame_data_size = 0
    /\ m_bone_pool_size = 0
    /\ capacity = 0
    /\ epoch = 0
    /\ loads = 0
    /\ loaded = FALSE
    /\ m_clips = <<>>
    /\ m_mappings = <<>>
    /\ m_source_bone_map = NoBones
    /\ m_target_bone_map = NoBones
    /\ retarget = NotStarted
    /\ crashed = FALSE
    /\ \/ \E v \in Points :
            last = [op |-> "Float3", frame |-> 0, bone |-> 0, status |-> "ok",
                    value |-> [in |-> v, out |-> v, times |-> 0],
                    stages |-> <<>>, reads |-> {}]
       \/ \E q \in Quaternions :
            last = [op |-> "Quaternion", frame |-> 0, bone |-> 0, status |-> "ok",
                    value |-> [in |-> q, out |-> q, times |-> 0],
                    stages |-> <<>>, reads |-> {}]

CallConvertPosition ==
    /\ last.op = "Float3"
    /\ last' = [last EXCEPT !.op = "ConvertPosition",
                            !.value.out = ConvertPosition(last.value.in),
                            !.value.times = 1]
    /\ UNCHANGED <<parserVars, crashed>>

CallConvertQuaternion ==
    /\ last.op \in {"Quaternion", "ConvertQuaternion"}
    /\ last.value.times < MaxConversions
    /\ last' = [last EXCEPT !.op = "ConvertQuaternion",
                            !.value.out = ConvertQuaternion(last.value.out),
                            !.value.times = @ + 1]
    /\ UNCHANGED <<parserVars, crashed>>

NextConvert == CallConvertPosition \/ CallConvertQuaternion

SpecConvert == InitConvert /\ [][NextConvert]_vars

ClipLine(name, start, count, loop, fps) ==
    [kind |-> "clip", name |-> name, start_frame |-> start, frame_count |-> count,
     loop_frame |-> loop, fps |-> fps]
BlankLine == [ClipLine("", 0, 0, 0, 0) EXCEPT !.kind = "blank"]
CommentLine == [ClipLine("//", 0, 0, 0, 0) EXCEPT !.kind = "comment"]

AnimationClip(line) ==
    [name |-> line.name, start_frame |-> line.start_frame,
     frame_count |-> line.frame_count, loop_frame |-> line.loop_frame,
     fps |-> line.fps]

\* The clips a line adds: blank and comment lines add none, and a clip line
\* with a non-positive frame count is skipped.
ParseLine(line) ==
    IF line.kind # "clip" THEN <<>>
    ELSE IF line.frame_count <= 0 THEN <<>>
    ELSE <<AnimationClip(line)>>

RECURSIVE ParseLines(_)
ParseLines(lines) ==
    IF lines = <<>> THEN <<>> ELSE ParseLine(Head(lines)) \o ParseLines(Tail(lines))

\* No animation.cfg next to the GLA file.
NoCfg == <<[BlankLine EXCEPT !.kind = "none"]>>

\* The first clip of that name, NoClip (nullptr) when there is none.
NoClip == AnimationClip(ClipLine("", 0, 0, 0, 0))
RECURSIVE FindClipIn(_, _)
FindClipIn(clips, name) ==
    IF clips = <<>> THEN NoClip
    ELSE IF Head(clips).name = name THEN Head(clips)
    ELSE FindClipIn(Tail(clips), name)
FindClip(name) == FindClipIn(m_clips, name)

(***************************************************************************)
(* GlaImporter::Load: the GLA file, then the animation.cfg next to it.     *)
(***************************************************************************)
\* Compressed records whose translations are multiples of 1/32: the identity;
\* (1/2,1/2,1/2,1/2) with translation (1,0,-2); a half turn about x with
\* translation (1/32,1/2,0).
ClipPoolRecs == <<Rec0, Rec1, <<32766, 49149, 32766, 32766, 32770, 32800, 32768>> >>

\* Three bones (a root and its two children), three frames.
AnimThree == [WellFormed(<<-1, 0, 0>>, 3, <<1, 0, 2, 2, 1, 0, 0, 2, 1>>)
                EXCEPT !.pool = ClipPoolRecs]
\* Three bones in a chain, stored leaf first, two frames.
AnimChain == [WellFormed(<<1, 2, -1>>, 2, <<0, 2, 1, 1, 1, 2>>)
                EXCEPT !.pool = ClipPoolRecs]
ClipFiles ==
    {FileBytes(d) : d \in {AnimThree, AnimChain, [AnimThree EXCEPT !.version = 7]}}

CfgLines ==
    <<CommentLine, BlankLine,
      ClipLine("idle", 0, 1, -1, 20), ClipLine("walk", 0, 2, -1, 10),
      ClipLine("back", 0, 2, 0, -20), ClipLine("slow", 0, 3, -1, 0),
      ClipLine("none", 0, 0, -1, 20), ClipLine("over", 1, 3, -1, 20),
      ClipLine("early", -1, 2, -1, 20), ClipLine("walk", 1, 1, -1, 20)>>
Cfgs == {NoCfg, CfgLines, <<ClipLine("back", 0, 2, -1, 20), ClipLine("late", 2, 1, -1, 5)>>}

\* The import framework calls Load once, before any Import.
ImporterLoad ==
    /\ ~crashed
    /\ loads = 0
    /\ loads' = loads + 1
    /\ UNCHANGED <<m_mappings, m_source_bone_map, m_target_bone_map, retarget>>
    /\ \E data \in ClipFiles, cfg \in Cfgs, wrapPasses \in BOOLEAN :
         \E r \in {LoadResult(data, wrapPasses)} :
            /\ Assign(r)
            /\ m_clips' = IF r.status = "ok" /\ cfg # NoCfg THEN ParseLines(cfg)
                          ELSE m_clips
            /\ Returns("GlaImporter::Load", 0, 0,
                       [r EXCEPT !.file_data = NoValue] @@ [value |-> NoValue])

(***************************************************************************)
(* GlaImporter::Import(animation name, Skeleton, sampling rate,            *)
(* RawAnimation).  A Skeleton is its joint names and joint parents.  Times *)
(* are carried in units of 1/TimeScale second, rates in frames per second. *)
(***************************************************************************)
TimeScale == 5 * One
DefaultFps == 20

ResolveFpsRateFirst(clip_fps, sampling_rate) ==
    IF sampling_rate > 0 THEN sampling_rate
    ELSE IF clip_fps <= 0 THEN DefaultFps
    ELSE clip_fps

\* The rate used: clip->fps when positive, else the sampling rate, else 20.
ResolveFps(clip_fps, sampling_rate) ==
    IF clip_fps > 0 THEN clip_fps
    ELSE IF sampling_rate <= 0 THEN DefaultFps
    ELSE sampling_rate

FrameDuration(fps) == Exact(TimeScale, fps)

\* _animation->duration: a single frame gets one frame duration.
Duration(frame_count, frame_duration) ==
    IF frame_count > 1 THEN (frame_count - 1) * frame_duration ELSE frame_duration

\* joint_map[name]: the last joint of that name, 0-based; -1 when none.
JointIndex(names, name) ==
    IF \E i \in 1..Len(names) : names[i] = name
    THEN (CHOOSE i \in 1..Len(names) :
             /\ names[i] = name
             /\ \A k \in (i + 1)..Len(names) : names[k] # name) - 1
    ELSE -1

\* ozz_to_gla[j]: the last bone whose name maps to joint j; -1 when none.
OzzToGla(names, j) ==
    IF \E b \in 1..m_header.num_bones : JointIndex(names, m_bones[b].name) = j
    THEN (CHOOSE b \in 1..m_header.num_bones :
             /\ JointIndex(names, m_bones[b].name) = j
             /\ \A k \in (b + 1)..m_header.num_bones :
                    JointIndex(names, m_bones[k].name) # j) - 1
    ELSE -1

\* Phase 1 for one joint: the converted world transform of its bone.  After
\* undefined behaviour in ComputeAnimatedWorldTransform the values are
\* whatever was left in the outputs, and the status tells so.
ConvertedWorld(w) ==
    IF w.status # "ok"
    THEN [status |-> w.status, pos |-> Float3(0, 0, 0), rot |-> QuatIdentity,
          reads |-> w.reads]
    ELSE [status |-> "ok", pos |-> ConvertPosition(w.value.world_pos),
          rot |-> NormalizeQuaternion(ConvertQuaternion(w.value.world_rot)),
          reads |-> w.reads]

JointWorld(gla_frame, gla_bone) ==
    IF gla_bone < 0
    THEN [status |-> "ok", pos |-> Float3(0, 0, 0), rot |-> QuatIdentity, reads |-> {}]
    ELSE ConvertedWorld(ComputeAnimatedWorldTransform(gla_frame, gla_bone))

\* world_pos_ozz / world_rot_ozz after phase 1 of the frame.
FrameWorld(gla_frame, names) ==
    [j \in 1..Len(names) |-> JointWorld(gla_frame, OzzToGla(names, j - 1))]

\* Phase 1.5: the position of joint 0 is subtracted from every position.
\* Reading world_pos_ozz[0] of an empty vector is undefined.
RecenterWorld(world, root_offset) ==
    [j \in 1..Len(world) |->
        [world[j] EXCEPT !.pos = Float3(@.x - root_offset.x, @.y - root_offset.y,
                                        @.z - root_offset.z)]]
ExtractRootMotion(world) ==
    IF world = <<>> THEN world ELSE RecenterWorld(world, world[1].pos)

\* Phase 2 for a joint with a parent: local from the two world transforms.
LocalInParent(parent, child, parent_rot_inv) ==
    [trans |-> RotateVectorByQuaternion(parent_rot_inv,
                   Float3(child.pos.x - parent.pos.x, child.pos.y - parent.pos.y,
                          child.pos.z - parent.pos.z)),
     rot |-> NormalizeQuaternion(QuaternionMultiply(parent_rot_inv, child.rot))]

LocalTransformSinglePass(world, ozz_parent, j) ==
    IF ozz_parent < 0 \/ ozz_parent + 1 > j
    THEN [trans |-> world[j].pos, rot |-> world[j].rot]
    ELSE LocalInParent(world[ozz_parent + 1], world[j],
                       QuaternionConjugate(world[ozz_parent + 1].rot))

LocalTransform(world, ozz_parent, j) ==
    IF ozz_parent < 0 THEN [trans |-> world[j].pos, rot |-> world[j].rot]
    ELSE LocalInParent(world[ozz_parent + 1], world[j],
                       QuaternionConjugate(world[ozz_parent + 1].rot))

\* The local transforms of a frame, with the status of and the bytes read by
\* its world transforms.
FrameLocals(world, parents) ==
    [locals |-> [j \in 1..Len(world) |-> LocalTransform(world, parents[j], j)],
     statuses |-> {world[j].status : j \in 1..Len(world)},
     reads |-> UNION {world[j].reads : j \in 1..Len(world)}]

\* What a call made for the debug output did: its status and the bytes read.
Probe(r) == [status |-> r.status, reads |-> r.reads]
NoProbe == [status |-> "ok", reads |-> {}]
\* Outputs printed after GetBoneTransform returned false are uninitialised.
UninitIfFailed(r) ==
    [status |-> IF r.status = "ok" THEN "ok" ELSE "ub", reads |-> r.reads]
ParentProbe(frame, parent) ==
    IF parent < 0 THEN NoProbe ELSE Probe(ComputeAnimatedWorldTransform(frame, parent))

\* GetBoneTransform, ComputeAnimatedWorldTransform of the bone and of its
\* parent (GetAnimTransformInParentSpace), for a bone inside the table.
BoneProbes(frame, b) ==
    {UninitIfFailed(GetBoneTransform(frame, b)),
     Probe(ComputeAnimatedWorldTransform(frame, b)),
     ParentProbe(frame, m_bones[b + 1].parent)}

\* The comparison of the first bones with the bind pose, made before the
\* frame range is validated.
DebugCompare(frame) ==
    UNION {BoneProbes(frame, b)
               \cup {[status |-> GetLocalBindPoseTransform(b).status, reads |-> {}]} :
           b \in 0..((IF m_header.num_bones < 5 THEN m_header.num_bones ELSE 5) - 1)}

\* GlaParser::DebugTraceTransform returns at once for a bone outside the table.
DebugTraceTransform(frame, b) == IF ~InBones(b) THEN {} ELSE BoneProbes(frame, b)

\* The bones gla2ozz.cc prints (GetBones()[b], unchecked) and traces.
CompareBones == {11, 12, 13, 24, 25, 27, 29, 38}
TraceBones == {1, 11, 12, 13, 24, 25, 27, 29, 37, 38, 40, 42}
BoneTableProbe(frame, b) ==
    IF ~InBones(b) THEN {[status |-> "ub", reads |-> {}]}
    ELSE {UninitIfFailed(GetBoneTransform(frame, b)),
          [status |-> IF m_bones[b + 1].parent >= Len(m_bones) THEN "ub" ELSE "ok",
           reads |-> {}]}
DebugTraces(frame) ==
    UNION {BoneTableProbe(frame, b) : b \in CompareBones}
        \cup UNION {DebugTraceTransform(frame, b) : b \in TraceBones}

\* The bones the other copy of the importer traces.
RecenteredTraceBones == {1, 13, 14, 15, 16, 17, 3, 5, 6}
RecenteredDebugTraces(frame) ==
    UNION {DebugTraceTransform(frame, b) : b \in RecenteredTraceBones}

\* Keyframes of one track.
Key(time, value) == [time |-> time, value |-> value]
KeysOrDefault(keys, animated, default) ==
    IF ~animated \/ keys = <<>> THEN <<Key(0, default)>> ELSE keys
WithoutEndKey(keys, duration) == keys
WithEndKey(keys, duration) ==
    IF Len(keys) = 1 /\ duration > 0 THEN Append(keys, Key(duration, keys[1].value))
    ELSE keys

\* The track of joint j: the keys pushed by the frame loop, then the
\* post-process.  animated[j] is set in every frame, for every joint.
TrackOf(frames, frame_duration, duration, j) ==
    [translations |->
        WithEndKey(KeysOrDefault(
            [f \in 1..Len(frames) |->
                Key((f - 1) * frame_duration, frames[f].locals[j].trans)],
            Len(frames) > 0, Float3(0, 0, 0)), duration),
     rotations |->
        WithEndKey(KeysOrDefault(
            [f \in 1..Len(frames) |->
                Key((f - 1) * frame_duration, frames[f].locals[j].rot)],
            Len(frames) > 0, QuatIdentity), duration),
     scales |->
        WithEndKey(KeysOrDefault(
            [f \in 1..Len(frames) |->
                Key((f - 1) * frame_duration, Float3(One, One, One))],
            Len(frames) > 0, Float3(One, One, One)), duration)]

\* ozz RawAnimation::Validate: a positive duration, at most kMaxJoints
\* tracks, key times inside [0, duration] and strictly ascending.
ValidKeys(keys, duration) ==
    \A i \in 1..Len(keys) :
        /\ keys[i].time >= 0
        /\ keys[i].time <= duration
        /\ i > 1 => keys[i - 1].time < keys[i].time
ValidateAnimation(animation) ==
    /\ animation.duration > 0
    /\ Len(animation.tracks) <= kMaxJoints
    /\ \A j \in 1..Len(animation.tracks) :
          /\ ValidKeys(animation.tracks[j].translations, animation.duration)
          /\ ValidKeys(animation.tracks[j].rotations, animation.duration)
          /\ ValidKeys(animation.tracks[j].scales, animation.duration)

\* The local transforms of every frame of the clip.
ClipFrames(clip, skeleton) ==
    [f \in 1..clip.frame_count |->
        FrameLocals(FrameWorld(clip.start_frame + f - 1, skeleton.names),
                    skeleton.parents)]
\* The same with phase 1.5 between phase 1 and phase 2.
ClipFramesRecentered(clip, skeleton) ==
    [f \in 1..clip.frame_count |->
        FrameLocals(ExtractRootMotion(FrameWorld(clip.start_frame + f - 1,
                                                 skeleton.names)),
                    skeleton.parents)]

\* [status, value, reads]: value.returned is what Import returned and
\* value.animation what it left in *_animation; status tells whether
\* undefined behaviour happened on the way.
ImportReturn(returned, animation, probes) ==
    [status |-> IF \E q \in probes : q.status = "overflow" THEN "overflow"
                ELSE IF \E q \in probes : q.status # "ok" THEN "ub"
                ELSE IF returned THEN "ok" ELSE "fail",
     value |-> [returned |-> returned, animation |-> animation],
     reads |-> UNION {q.reads : q \in probes}]

RawAnimation(name, frames, frame_duration, duration, num_joints) ==
    [name |-> name, duration |-> duration,
     tracks |-> [j \in 1..num_joints |-> TrackOf(frames, frame_duration, duration, j)]]

ImportValidated(animation, probes) ==
    ImportReturn(ValidateAnimation(animation), animation, probes)

\* Import from the fps resolution on.
ImportFrames(clip, name, num_joints, frame_duration, frames, probes) ==
    ImportValidated(
        RawAnimation(name, frames, frame_duration,
                     Duration(clip.frame_count, frame_duration), num_joints),
        probes \cup {[status |-> q, reads |-> {}] :
                        q \in UNION {frames[f].statuses : f \in 1..Len(frames)}}
               \cup {[status |-> "ok", reads |-> frames[f].reads] :
                        f \in 1..Len(frames)})

\* Import of the clip found: compared is what the comparison loop did,
\* traces what the traces do, frames the frame loop's local transforms.
ImportClip(clip, name, skeleton, sampling_rate, compared, traces, frames) ==
    IF clip = NoClip THEN ImportReturn(FALSE, NoValue, {})
    ELSE IF clip.start_frame + clip.frame_count > m_header.num_frames
    THEN ImportReturn(FALSE, NoValue, compared)
    ELSE ImportFrames(clip, name, Len(skeleton.names),
                      FrameDuration(ResolveFps(clip.fps, sampling_rate)), frames,
                      compared \cup traces)

\* tools/gla2ozz/gla2ozz.cc
ImportAnimation(name, skeleton, sampling_rate) ==
    ImportClip(FindClip(name), name, skeleton, sampling_rate,
               DebugCompare(FindClip(name).start_frame),
               IF FindClip(name).start_frame > 0
               THEN DebugTraces(FindClip(name).start_frame) ELSE {},
               ClipFrames(FindClip(name), skeleton))

\* The copy of the importer with root-motion extraction.
ImportAnimationRecentered(name, skeleton, sampling_rate) ==
    ImportClip(FindClip(name), name, skeleton, sampling_rate,
               DebugCompare(FindClip(name).start_frame),
               IF FindClip(name).start_frame > 0
               THEN RecenteredDebugTraces(FindClip(name).start_frame) ELSE {},
               ClipFramesRecentered(FindClip(name), skeleton))

\* Target skeletons: the joints of the file's bones; with a joint x (120) no bone
\* is named after; with the parent of joint 0 stored after it; two roots, one
\* of them unmatched; an unmatched root above the file's root.
\* The rest pose the skeletons were built with: joint j at (j, 0, 0) from its
\* parent, turned a half turn about x.
RestPoses(n) ==
    [j \in 1..n |-> [translation |-> Float3(j * One, 0, 0),
                     rotation |-> Quat(One, 0, 0, 0),
                     scale |-> Float3(One, One, One)]]
Skeleton(names, parents) ==
    [names |-> names, parents |-> parents, rest_poses |-> RestPoses(Len(names))]
SkelBones == Skeleton(<<97, 98, 99>>, <<-1, 0, 0>>)
SkelUnmatchedLeaf == Skeleton(<<97, 98, 120>>, <<-1, 0, 1>>)
SkelParentLater == Skeleton(<<98, 97, 99>>, <<1, -1, 1>>)
Skeletons ==
    {SkelBones, SkelUnmatchedLeaf, SkelParentLater,
     Skeleton(<<97, 120>>, <<-1, -1>>),
     Skeleton(<<120, 97, 99>>, <<-1, 0, 1>>)}
SamplingRates == {0, 5, -4}

\* The calls explored, <<name, skeleton, sampling rate>>: every rate on the
\* clips that import, every skeleton on two of them, and the clips that are
\* absent or out of range.
ImportCalls ==
    ({"idle", "walk", "back", "slow"} \X {SkelBones} \X SamplingRates)
        \cup ({"walk", "slow"} \X Skeletons \X {0})
        \cup ({"none", "over", "early", "late", "run"} \X {SkelBones} \X {5})

\* The arguments of the call, kept with its result.
WithArguments(r, call) ==
    [r EXCEPT !.value = @ @@ [name |-> call[1], skeleton |-> call[2],
                              sampling_rate |-> call[3]]]
        @@ [stages |-> <<>>]

CallImportAnimation ==
    /\ ~crashed
    /\ loaded
    /\ \E call \in ImportCalls :
         Returns("Import", 0, 0,
                 WithArguments(ImportAnimation(call[1], call[2], call[3]), call))
    /\ UNCHANGED parserVars

CallImportAnimationRecentered ==
    /\ ~crashed
    /\ loaded
    /\ \E call \in ImportCalls :
         Returns("ImportRecentered", 0, 0,
                 WithArguments(ImportAnimationRecentered(call[1], call[2], call[3]),
                               call))
    /\ UNCHANGED parserVars

NextClip == ImporterLoad \/ CallImportAnimation \/ CallImportAnimationRecentered

SpecClip == Init /\ [][NextClip]_vars

(***************************************************************************)
(* Clip import: the claims.                                                *)
(***************************************************************************)
\* An Import call of either copy of the importer that returned true without
\* undefined behaviour on the way, and the clip it imported.
Imported == last.op \in {"Import", "ImportRecentered"} /\ last.status = "ok"
ImportedClip == FindClip(last.value.name)
ImportedAnimation == last.value.animation

\* The rate the specification names for a clip and a sampling rate.
PlaybackRate(clip_fps, sampling_rate) ==
    CASE clip_fps > 0 -> clip_fps
      [] clip_fps <= 0 /\ sampling_rate > 0 -> sampling_rate
      [] OTHER -> 20

\* The time of every key pushed by the frame loop is its frame number times
\* 1/fps: time * fps = frame, in units of 1/TimeScale second.
FrameTimes(keys, fps) ==
    \A f \in 1..Len(keys) : keys[f].time * fps = (f - 1) * TimeScale

\* C12: an imported animation has duration (frameCount - 1) / fps, and 1 / fps
\* when the clip has a single frame, its frames 1 / fps apart, where fps is
\* the clip's fps if positive, else the sampling rate if positive, else 20.
C12_RateAndDuration ==
    Imported =>
        \E fps \in {PlaybackRate(ImportedClip.fps, last.value.sampling_rate)} :
            /\ ImportedAnimation.duration * fps =
                  (IF ImportedClip.frame_count = 1 THEN 1
                   ELSE ImportedClip.frame_count - 1) * TimeScale
            /\ ImportedAnimation.duration > 0
            /\ ImportedClip.frame_count > 1 =>
                  \A j \in 1..Len(ImportedAnimation.tracks) :
                      /\ FrameTimes(ImportedAnimation.tracks[j].translations, fps)
                      /\ FrameTimes(ImportedAnimation.tracks[j].rotations, fps)
                      /\ FrameTimes(ImportedAnimation.tracks[j].scales, fps)

\* A single-frame clip declared at 20 fps imported with duration 1/20 s.
C12_Witness ==
    /\ Imported
    /\ last.op = "Import"
    /\ ImportedClip.frame_count = 1
    /\ ImportedClip.fps = 20
    /\ ImportedAnimation.duration * 20 = TimeScale

\* A three-frame clip without a rate of its own imported at the default rate.
C12_DefaultRateWitness ==
    /\ Imported
    /\ ImportedClip.frame_count = 3
    /\ ImportedClip.fps = 0
    /\ last.value.sampling_rate < 0
    /\ ImportedAnimation.duration * 20 = 2 * TimeScale

\* C13: a clip declared with a negative fps is imported with the timing of
\* the same clip declared with |fps|: duration (frameCount - 1) / |fps|, or
\* 1 / |fps| for a single frame, whatever the sampling rate.
C13_MagnitudeAuthoritative ==
    Imported /\ ImportedClip.fps < 0 =>
        ImportedAnimation.duration * (0 - ImportedClip.fps) =
            (IF ImportedClip.frame_count = 1 THEN 1
             ELSE ImportedClip.frame_count - 1) * TimeScale

\* A two-frame clip declared at -20 fps, imported with sampling rate 5, lasts
\* 1/5 s, not 1/20 s.
C13_SamplingRateUsed ==
    /\ Imported
    /\ last.op = "Import"
    /\ ImportedClip.fps = -20
    /\ ImportedClip.frame_count = 2
    /\ last.value.sampling_rate = 5
    /\ ImportedAnimation.duration * 5 = TimeScale

\* The three key sequences of a track.
TrackKeys(track) == {track.translations, track.rotations, track.scales}

\* C14: in every imported animation every translation, rotation and scale
\* track has at least two keys and its last key is at the animation's duration.
C14_TwoKeysEndingAtDuration ==
    Imported =>
        \A j \in 1..Len(ImportedAnimation.tracks) :
            \A keys \in TrackKeys(ImportedAnimation.tracks[j]) :
                /\ Len(keys) >= 2
                /\ keys[Len(keys)].time = ImportedAnimation.duration

\* A single-frame clip imported for three joints: every track has the key of
\* the frame and a second key at the duration.
C14_Witness ==
    /\ Imported
    /\ ImportedClip.frame_count = 1
    /\ Len(ImportedAnimation.tracks) = 3
    /\ ImportedAnimation.duration > 0
    /\ \A j \in 1..3 :
          \A keys \in TrackKeys(ImportedAnimation.tracks[j]) :
              Len(keys) = 2 /\ keys[1].time = 0
                  /\ keys[2].time = ImportedAnimation.duration

\* A three-frame clip: the third key of every track is at the duration.
C14_ThreeFramesWitness ==
    /\ Imported
    /\ ImportedClip.frame_count = 3
    /\ \A j \in 1..Len(ImportedAnimation.tracks) :
          \A keys \in TrackKeys(ImportedAnimation.tracks[j]) :
              Len(keys) = 3 /\ keys[3].time = ImportedAnimation.duration

\* The joints of the imported skeleton no bone is named after (1-based).
UnmatchedJoints ==
    {j \in 1..Len(last.value.skeleton.names) :
        OzzToGla(last.value.skeleton.names, j - 1) = -1}
TwoKeys(keys, value) ==
    keys = <<Key(0, value), Key(ImportedAnimation.duration, value)>>

\* C15: in an imported animation the tracks of a joint without a same-named
\* bone hold exactly two keys, at 0 and at the duration, with the joint's
\* rest-pose translation and rotation and unit scale.
C15_UnmatchedFromRestPose ==
    Imported =>
        \A j \in UnmatchedJoints :
            /\ TwoKeys(ImportedAnimation.tracks[j].translations,
                       last.value.skeleton.rest_poses[j].translation)
            /\ TwoKeys(ImportedAnimation.tracks[j].rotations,
                       last.value.skeleton.rest_poses[j].rotation)
            /\ TwoKeys(ImportedAnimation.tracks[j].scales, Float3(One, One, One))

\* A three-frame clip imported for a skeleton whose third joint has no bone:
\* the joint gets a key per frame, computed from its parent's world transform
\* of the frame, and none of them is its rest pose.
C15_UnmatchedKeyedPerFrame ==
    /\ Imported
    /\ last.op = "Import"
    /\ last.value.skeleton = SkelUnmatchedLeaf
    /\ UnmatchedJoints = {3}
    /\ ImportedClip.frame_count = 3
    /\ Len(ImportedAnimation.tracks[3].translations) = 3
    /\ ImportedAnimation.tracks[3].translations[1].value #
          ImportedAnimation.tracks[3].translations[2].value
    /\ \A f \in 1..3 :
          ImportedAnimation.tracks[3].translations[f].value #
              last.value.skeleton.rest_poses[3].translation

\* Every key of the translation track of joint 0 is (0,0,0).
RootTrackZero ==
    \A k \in 1..Len(ImportedAnimation.tracks[1].translations) :
        ImportedAnimation.tracks[1].translations[k].value = Float3(0, 0, 0)

\* C16: in every imported animation whose joint 0 is the root, every key of
\* the root's translation track is (0,0,0).
C16_RootTranslationZero ==
    Imported /\ last.value.skeleton.parents[1] = -1 => RootTrackZero

\* tools/gla2ozz/gla2ozz.cc: the root's translation keys are the converted
\* world positions of its bone, here not at the origin.
C16_RootKeepsWorldPosition ==
    /\ Imported
    /\ last.op = "Import"
    /\ last.value.skeleton = SkelBones
    /\ ImportedClip.frame_count = 2
    /\ \E k \in 1..2 :
          /\ ImportedAnimation.tracks[1].translations[k].value # Float3(0, 0, 0)
          /\ ImportedAnimation.tracks[1].translations[k].value =
                JointWorld(ImportedClip.start_frame + k - 1, 0).pos

\* The copy of the importer with phase 1.5 does recenter on joint 0.
C16_RecenteredCopy ==
    Imported /\ last.op = "ImportRecentered" /\ last.value.skeleton.parents[1] = -1
        => RootTrackZero

\* The converted world transform of joint j (1-based) in frame f of the
\* imported clip, and the position phase 1.5 subtracts from it.
WorldOf(f, j) ==
    JointWorld(ImportedClip.start_frame + f - 1,
               OzzToGla(last.value.skeleton.names, j - 1))
RootOffset(f) == IF last.op = "Import" THEN Float3(0, 0, 0) ELSE WorldOf(f, 1).pos

\* The parent's world transform composed with a local transform is the
\* child's world transform.
ComposesTo(parent, trans, rot, child) ==
    /\ QuaternionMultiply(parent.rot, rot) = child.rot
    /\ RotateVectorByQuaternion(parent.rot, trans) = Minus(child.pos, parent.pos)

\* Key f of joint j is the joint's world transform of frame f taken into the
\* space of the joint's parent in the target skeleton.
LocalOfWorld(f, j, p) ==
    IF p < 0
    THEN /\ ImportedAnimation.tracks[j].rotations[f].value = WorldOf(f, j).rot
         /\ ImportedAnimation.tracks[j].translations[f].value =
               Minus(WorldOf(f, j).pos, RootOffset(f))
    ELSE ComposesTo(WorldOf(f, p + 1),
                    ImportedAnimation.tracks[j].translations[f].value,
                    ImportedAnimation.tracks[j].rotations[f].value,
                    WorldOf(f, j))

\* C17: in an imported animation key f of a joint without parent is the
\* joint's world transform of frame f, and key f of a joint with target parent
\* p composes with the world transform of p of that frame, wherever p is
\* stored, to the joint's world transform.
C17_ParentLocalByIndex ==
    Imported =>
        \A f \in 1..ImportedClip.frame_count :
            \A j \in 1..Len(last.value.skeleton.names) :
                LocalOfWorld(f, j, last.value.skeleton.parents[j])

\* A two-frame clip imported for a skeleton whose joint 0 has joint 1 as its
\* parent, the parent's world rotation not being the identity.
C17_Witness ==
    /\ Imported
    /\ last.op = "Import"
    /\ last.value.skeleton = SkelParentLater
    /\ ImportedClip.frame_count = 2
    /\ \E f \in 1..2 :
          /\ WorldOf(f, 2).rot # QuatIdentity
          /\ WorldOf(f, 2).pos # Float3(0, 0, 0)
          /\ ImportedAnimation.tracks[1].translations[f].value # WorldOf(f, 1).pos
          /\ LocalOfWorld(f, 1, 1)

\* An Import call of either copy that found its clip, and whether the clip's
\* frames are all frames of the file.
ImportCalled == last.op \in {"Import", "ImportRecentered"} /\ ImportedClip # NoClip
ClipInRange ==
    /\ ImportedClip.start_frame >= 0
    /\ ImportedClip.start_frame + ImportedClip.frame_count <= m_header.num_frames

\* C18: an Import call never uses a frame or bone index outside the file's
\* declared bounds (nor what a call refused for such an index left unset),
\* and it returns false for a clip whose frames are not all frames of the
\* file.
C18_RangeErrorFailsCleanly ==
    ImportCalled =>
        /\ last.status \in {"ok", "fail"}
        /\ ~ClipInRange => ~last.value.returned

\* A clip starting at frame -1 passes the range check: Import asks the parser
\* for frame -1, builds keys from the outputs the parser left unset, and
\* returns true.
C18_NegativeStartImported ==
    /\ last.op = "Import"
    /\ ImportedClip.start_frame = -1
    /\ ImportedClip.frame_count = 2
    /\ last.status = "ub"
    /\ last.value.returned
    /\ Len(ImportedAnimation.tracks) = 3

\* A clip starting past the last frame is rejected only after the bind pose
\* comparison has asked for the frame and printed the unset outputs.
C18_ComparedBeforeCheck ==
    /\ last.op = "Import"
    /\ ImportedClip.start_frame >= m_header.num_frames
    /\ last.status = "ub"
    /\ ~last.value.returned

\* A clip inside the file that does not start at frame 0: the traces index
\* bone 11 of a table of three bones.
C18_BoneTableUnchecked ==
    /\ last.op = "Import"
    /\ ClipInRange
    /\ ImportedClip.start_frame > 0
    /\ m_header.num_bones = 3
    /\ last.status = "ub"
    /\ last.value.returned

\* A call of Import leaves the parser and the clip list as they were.
C18_ParserUntouched ==
    [][last'.op \in {"Import", "ImportRecentered"} =>
          /\ m_clips' = m_clips
          /\ m_bones' = m_bones
          /\ m_header' = m_header
          /\ m_file_data' = m_file_data]_vars

(***************************************************************************)
(* ozz-retarget: BoneMapper (bone_mapper.h, bone_mapper.cc).  A JSON value *)
(* is carried as its type with its string, its number (1/64 units) or its  *)
(* items; "absent" is a key the object does not contain.                   *)
(***************************************************************************)
Json(type, str, num, items) == [type |-> type, str |-> str, num |-> num, items |-> items]
JsonAbsent == Json("absent", "", 0, <<>>)
JsonNull == Json("null", "", 0, <<>>)
JsonString(s) == Json("string", s, 0, <<>>)
JsonNumber(n) == Json("number", "", n, <<>>)
JsonArray(items) == Json("array", "", 0, items)
\* An element of "mappings": an object with these keys, or something else.
JsonMapping(target, source, correction_axis_angle) ==
    [type |-> "object", target |-> target, source |-> source,
     correction_axis_angle |-> correction_axis_angle]
JsonNotObject(type) == [JsonMapping(JsonAbsent, JsonAbsent, JsonAbsent) EXCEPT !.type = type]

\* The three constructors of BoneMapping.
BoneMappingSingle(target, source) ==
    [target_bone |-> target, source_bones |-> <<source>>, combine_rotations |-> FALSE,
     correction |-> QuatIdentity, has_correction |-> FALSE]
BoneMappingCombined(target, sources) ==
    [target_bone |-> target, source_bones |-> sources,
     combine_rotations |-> Len(sources) > 1,
     correction |-> QuatIdentity, has_correction |-> FALSE]
BoneMappingUnmapped(target) ==
    [target_bone |-> target, source_bones |-> <<>>, combine_rotations |-> FALSE,
     correction |-> QuatIdentity, has_correction |-> FALSE]
is_unmapped(mapping) == mapping.source_bones = <<>>
is_combined(mapping) == Len(mapping.source_bones) > 1

\* The strings of a "source" array, in array order; other items are dropped.
RECURSIVE SourceStringsReversed(_)
SourceStringsReversed(items) ==
    IF items = <<>> THEN <<>>
    ELSE IF Head(items).type = "string"
    THEN Append(SourceStringsReversed(Tail(items)), Head(items).str)
    ELSE SourceStringsReversed(Tail(items))

RECURSIVE SourceStrings(_)
SourceStrings(items) ==
    IF items = <<>> THEN <<>>
    ELSE IF Head(items).type = "string"
    THEN <<Head(items).str>> \o SourceStrings(Tail(items))
    ELSE SourceStrings(Tail(items))

\* bone_mapping after the "source" branch.
MappingOfSources(target, sources) ==
    IF sources # <<>> THEN BoneMappingCombined(target, sources)
    ELSE BoneMappingUnmapped(target)
MappingOfSource(target, source) ==
    IF source.type \in {"absent", "null"} THEN BoneMappingUnmapped(target)
    ELSE IF source.type = "string" THEN BoneMappingSingle(target, source.str)
    ELSE IF source.type = "array"
    THEN MappingOfSources(target, SourceStrings(source.items))
    ELSE BoneMappingUnmapped(target)

\* sin and cos of half the angle, for the angles whose values are exact.
SinHalf(angle_deg) ==
    CASE angle_deg \in {0, 360} -> 0
      [] angle_deg = 180 -> One
      [] angle_deg = -180 -> 0 - One
      [] OTHER -> "inexact"
CosHalf(angle_deg) ==
    CASE angle_deg = 0 -> One
      [] angle_deg \in {180, -180} -> 0
      [] angle_deg = 360 -> 0 - One
      [] OTHER -> "inexact"

\* The quaternion of a rotation by angle_deg about the axis, normalised when
\* its length is above 0.0001.
AxisAngle(s, c, ax, ay, az, axis_len) ==
    IF axis_len > 0
    THEN Quat(FMul(FDiv(ax, axis_len), s), FMul(FDiv(ay, axis_len), s),
              FMul(FDiv(az, axis_len), s), c)
    ELSE Quat(FMul(ax, s), FMul(ay, s), FMul(az, s), c)
CorrectionOf(corr) ==
    AxisAngle(SinHalf(corr[1].num \div One), CosHalf(corr[1].num \div One),
              corr[2].num, corr[3].num, corr[4].num,
              FSqrt(FMul(corr[2].num, corr[2].num) + FMul(corr[3].num, corr[3].num)
                        + FMul(corr[4].num, corr[4].num)))

\* bone_mapping after the "correction_axis_angle" branch; get<float>() of an
\* item that is not a number throws json::type_error.
WithCorrection(bone_mapping, corr) ==
    IF corr.type # "array" \/ Len(corr.items) # 4
    THEN [status |-> "ok", mapping |-> bone_mapping]
    ELSE IF \E i \in 1..4 : corr.items[i].type # "number"
    THEN [status |-> "throw", mapping |-> bone_mapping]
    ELSE [status |-> "ok",
          mapping |-> [bone_mapping EXCEPT !.correction = CorrectionOf(corr.items),
                                           !.has_correction = TRUE]]

\* One pass of the loop over "mappings": "skip" is its continue.
LoadMapping(mapping) ==
    IF mapping.type # "object" \/ mapping.target.type # "string"
    THEN [status |-> "skip", mapping |-> BoneMappingUnmapped("")]
    ELSE WithCorrection(MappingOfSource(mapping.target.str, mapping.source),
                        mapping.correction_axis_angle)

\* The loop: m_mappings when it ends or when an exception leaves it.
RECURSIVE LoadMappingsFrom(_, _, _)
LoadMappingsFrom(entries, mappings, r) ==
    IF r.status = "throw" THEN [status |-> "throw", returned |-> FALSE, mappings |-> mappings]
    ELSE IF entries = <<>>
    THEN [status |-> "ok", returned |-> TRUE,
          mappings |-> IF r.status = "ok" THEN Append(mappings, r.mapping) ELSE mappings]
    ELSE LoadMappingsFrom(Tail(entries),
                          IF r.status = "ok" THEN Append(mappings, r.mapping) ELSE mappings,
                          LoadMapping(Head(entries)))
LoadMappings(entries) ==
    IF entries = <<>> THEN [status |-> "ok", returned |-> TRUE, mappings |-> <<>>]
    ELSE LoadMappingsFrom(Tail(entries), <<>>, LoadMapping(Head(entries)))

\* A config file: whether it opens and parses, the type of "mappings" in the
\* parsed value ("absent" also when the value is not an object), its items.
ConfigFile(file, mappings_type, entries) ==
    [file |-> file, mappings_type |-> mappings_type, entries |-> entries]

\* BoneMapper::LoadConfig: [status, returned, mappings].
LoadConfig(config) ==
    IF config.file \in {"unopenable", "malformed"}
    THEN [status |-> "fail", returned |-> FALSE, mappings |-> m_mappings]
    ELSE IF config.mappings_type # "array"
    THEN [status |-> "fail", returned |-> FALSE, mappings |-> <<>>]
    ELSE LoadMappings(config.entries)

\* BoneMapper::GetMapping: the first mapping of that target, or nullopt.
NullOpt == [has_value |-> FALSE, value |-> BoneMappingUnmapped("")]
RECURSIVE GetMappingIn(_, _)
GetMappingIn(mappings, target_bone) ==
    IF mappings = <<>> THEN NullOpt
    ELSE IF Head(mappings).target_bone = target_bone
    THEN [has_value |-> TRUE, value |-> Head(mappings)]
    ELSE GetMappingIn(Tail(mappings), target_bone)
GetMapping(target_bone) == GetMappingIn(m_mappings, target_bone)

\* Entries of "mappings": the three of the tests and ones with a repeated
\* target, a one-string and a mixed array, a missing or mistyped target, a
\* mistyped source, and corrections that are well formed, short, not an array
\* or hold a string.
HalfTurnAboutY ==
    JsonArray(<<JsonNumber(180 * One), JsonNumber(0), JsonNumber(2 * One), JsonNumber(0)>>)
SingleEntry == JsonMapping(JsonString("Hips"), JsonString("pelvis"), JsonAbsent)
CombinedEntry ==
    JsonMapping(JsonString("LeftUpLeg"),
                JsonArray(<<JsonString("lfemurYZ"), JsonString("lfemurX")>>), JsonAbsent)
UnmappedEntry == JsonMapping(JsonString("Index1"), JsonNull, JsonAbsent)
RepeatedEntry == JsonMapping(JsonString("Hips"), JsonAbsent, JsonAbsent)
OneStringEntry ==
    JsonMapping(JsonString("Index1"), JsonArray(<<JsonString("lfemurX")>>), JsonAbsent)
MixedArrayEntry ==
    JsonMapping(JsonString("LeftUpLeg"),
                JsonArray(<<JsonNumber(One), JsonString("pelvis")>>), JsonAbsent)
NoTargetEntry == JsonMapping(JsonAbsent, JsonString("pelvis"), JsonAbsent)
NumberTargetEntry == JsonMapping(JsonNumber(7 * One), JsonString("pelvis"), JsonAbsent)
NumberSourceEntry == JsonMapping(JsonString("LeftUpLeg"), JsonNumber(5 * One), JsonAbsent)
CorrectedEntry == JsonMapping(JsonString("Hips"), JsonString("pelvis"), HalfTurnAboutY)
ShortCorrectionEntry ==
    JsonMapping(JsonString("Index1"), JsonString("pelvis"),
                JsonArray(<<JsonNumber(180 * One), JsonNumber(0), JsonNumber(One)>>))
TextCorrectionEntry ==
    JsonMapping(JsonString("LeftUpLeg"), JsonString("lfemurX"), JsonString("x"))
StringAngleEntry ==
    JsonMapping(JsonString("Index1"), JsonString("lfemurYZ"),
                JsonArray(<<JsonString("180"), JsonNumber(0), JsonNumber(One), JsonNumber(0)>>))
MappingEntries ==
    {SingleEntry, CombinedEntry, UnmappedEntry, RepeatedEntry, OneStringEntry,
     MixedArrayEntry, NoTargetEntry, NumberTargetEntry, NumberSourceEntry,
     CorrectedEntry, ShortCorrectionEntry, TextCorrectionEntry, StringAngleEntry,
     JsonNotObject("string")}
FirstEntries == {SingleEntry, NoTargetEntry, StringAngleEntry, CombinedEntry}
SecondEntries == {CombinedEntry, RepeatedEntry, StringAngleEntry, NumberTargetEntry}

\* The config files: unreadable ones, ones without a "mappings" array, and
\* "mappings" arrays of up to three entries.
Configs ==
    {ConfigFile("unopenable", "absent", <<>>), ConfigFile("malformed", "absent", <<>>),
     ConfigFile("ok", "absent", <<>>), ConfigFile("ok", "string", <<>>)}
        \cup {ConfigFile("ok", "array", entries) :
                entries \in {<<>>} \cup {<<e>> : e \in MappingEntries}
                    \cup {<<e, f>> : e \in FirstEntries, f \in SecondEntries}
                    \cup {<<SingleEntry, NoTargetEntry, CombinedEntry>>}}
TargetBones == {"Hips", "LeftUpLeg", "Index1", "Spine"}

MapperReturn(status, value) ==
    [status |-> status, value |-> value, stages |-> <<>>, reads |-> {}]

CallLoadConfig ==
    /\ ~crashed
    /\ \E config \in Configs :
         \E r \in {LoadConfig(config)} :
            /\ m_mappings' = r.mappings
            /\ Returns("LoadConfig", 0, 0,
                       MapperReturn(r.status, [config |-> config, returned |-> r.returned,
                                               before |-> m_mappings]))
    /\ UNCHANGED importerVars

CallGetMapping ==
    /\ ~crashed
    /\ \E target_bone \in TargetBones :
         Returns("GetMapping", 0, 0,
                 MapperReturn("ok", [target_bone |-> target_bone,
                                     result |-> GetMapping(target_bone)]))
    /\ UNCHANGED parserVars

NextConfig == CallLoadConfig \/ CallGetMapping

SpecConfig == Init /\ [][NextConfig]_vars

(***************************************************************************)
(* BoneMapper: the claims.                                                 *)
(***************************************************************************)
\* A LoadConfig call that returned true, and the entries of its file that
\* name their target.
ConfigLoaded == last.op = "LoadConfig" /\ last.status = "ok" /\ last.value.returned
HasTarget(entry) == entry.type = "object" /\ entry.target.type = "string"
IsString(json) == json.type = "string"
TargetedEntries == SelectSeq(last.value.config.entries, HasTarget)
ArrayOfStrings(json) ==
    json.type = "array" /\ \A i \in 1..Len(json.items) : IsString(json.items[i])
StringsOf(items) == [i \in 1..Len(items) |-> items[i].str]

\* What the specification says of an entry's source: none for an absent or
\* null source, the string, or the strings of the array in array order.
SourcesOf(source) ==
    CASE source.type = "string" -> <<source.str>>
      [] source.type = "array" -> StringsOf(SelectSeq(source.items, IsString))
      [] OTHER -> <<>>

\* C19 as stated: after a successful load GetMapping returns, for the target
\* of every entry, the mapping of that entry: unmapped for an absent or null
\* source, the one bone of a string source, and for an array of strings a
\* combined mapping of the strings in array order.
C19_EveryEntryReturned ==
    ConfigLoaded =>
        \A i \in 1..Len(TargetedEntries) :
            \E got \in {GetMapping(TargetedEntries[i].target.str)} :
                /\ got.has_value
                /\ TargetedEntries[i].source.type \in {"absent", "null"} =>
                      is_unmapped(got.value)
                /\ TargetedEntries[i].source.type = "string" =>
                      got.value.source_bones = <<TargetedEntries[i].source.str>>
                /\ ArrayOfStrings(TargetedEntries[i].source) =>
                      /\ got.value.source_bones =
                            StringsOf(TargetedEntries[i].source.items)
                      /\ is_combined(got.value)

\* The first mapping of a target among the loaded ones, if any.
FirstOf(target_bone) ==
    IF \E k \in 1..Len(m_mappings) : m_mappings[k].target_bone = target_bone
    THEN [has_value |-> TRUE,
          value |-> m_mappings[CHOOSE k \in 1..Len(m_mappings) :
                        /\ m_mappings[k].target_bone = target_bone
                        /\ \A n \in 1..(k - 1) :
                              m_mappings[n].target_bone # target_bone]]
    ELSE NullOpt

\* C19 (amended): a successful load holds one mapping per entry that names its
\* target, in file order, with the source bones the entry's source gives
\* (none, the string, or the strings of the array in order), combined exactly
\* when there are two or more; GetMapping returns the first mapping of the
\* target.
C19_SourceByType ==
    ConfigLoaded =>
        /\ Len(m_mappings) = Len(TargetedEntries)
        /\ \A i \in 1..Len(TargetedEntries) :
              /\ m_mappings[i].target_bone = TargetedEntries[i].target.str
              /\ m_mappings[i].source_bones = SourcesOf(TargetedEntries[i].source)
              /\ m_mappings[i].combine_rotations = is_combined(m_mappings[i])
        /\ \A target_bone \in TargetBones : GetMapping(target_bone) = FirstOf(target_bone)

\* A file with a string source and a second entry for the same target: both
\* are loaded, GetMapping returns the first.
C19_Witness ==
    /\ ConfigLoaded
    /\ last.value.config.entries = <<SingleEntry, RepeatedEntry>>
    /\ Len(m_mappings) = 2
    /\ m_mappings[1].source_bones = <<"pelvis">>
    /\ is_unmapped(m_mappings[2])
    /\ GetMapping("Hips").value = m_mappings[1]

\* An array of two strings gives a combined mapping, an array of one does not.
C19_ArrayWitness ==
    /\ ConfigLoaded
    /\ \/ /\ last.value.config.entries = <<CombinedEntry>>
          /\ m_mappings[1].source_bones = <<"lfemurYZ", "lfemurX">>
          /\ is_combined(m_mappings[1])
       \/ /\ last.value.config.entries = <<OneStringEntry>>
          /\ m_mappings[1].source_bones = <<"lfemurX">>
          /\ ~is_combined(m_mappings[1])

\* An entry with a string target, a source that is absent, null, a string or
\* an array of strings, and no correction or one of four numbers.
EntryWellTyped(entry) ==
    /\ HasTarget(entry)
    /\ \/ entry.source.type \in {"absent", "null", "string"}
       \/ ArrayOfStrings(entry.source)
    /\ \/ entry.correction_axis_angle.type = "absent"
       \/ /\ entry.correction_axis_angle.type = "array"
          /\ Len(entry.correction_axis_angle.items) = 4
          /\ \A i \in 1..4 : entry.correction_axis_angle.items[i].type = "number"
LoadedFrom(entry) ==
    \E k \in 1..Len(m_mappings) :
        /\ m_mappings[k].target_bone = entry.target.str
        /\ m_mappings[k].source_bones = SourcesOf(entry.source)

\* C20: LoadConfig of a file that parses and holds a "mappings" array does
\* not throw and returns true, whatever is wrong with single entries, and
\* every entry that is well typed is loaded.
C20_BadEntriesSkipped ==
    /\ last.op = "LoadConfig"
    /\ last.value.config.file = "ok"
    /\ last.value.config.mappings_type = "array"
    => /\ last.status = "ok"
       /\ last.value.returned
       /\ ~crashed
       /\ \A i \in 1..Len(last.value.config.entries) :
             EntryWellTyped(last.value.config.entries[i]) =>
                 LoadedFrom(last.value.config.entries[i])

\* An entry whose correction holds a string as its angle, followed by a well
\* typed entry: LoadConfig leaves with json::type_error, nothing is loaded
\* and the process ends.
C20_TypeErrorThrown ==
    /\ last.op = "LoadConfig"
    /\ last.value.config.entries = <<StringAngleEntry, CombinedEntry>>
    /\ last.status = "throw"
    /\ ~last.value.returned
    /\ m_mappings = <<>>
    /\ crashed

\* Entries without a string target are skipped and the others are loaded.
C20_TargetlessSkipped ==
    /\ ConfigLoaded
    /\ last.value.config.entries = <<SingleEntry, NoTargetEntry, CombinedEntry>>
    /\ Len(m_mappings) = 2
    /\ LoadedFrom(SingleEntry)
    /\ LoadedFrom(CombinedEntry)

\* C30: a LoadConfig call that returns false leaves m_mappings, and with it
\* what GetMapping and GetMappings return, as it was before the call.
C30_FailedLoadKeepsMappings ==
    [][last'.op = "LoadConfig" /\ last'.status = "fail" => m_mappings' = m_mappings]_vars

\* Two mappings are held; a file that parses but has no "mappings" array is
\* loaded: LoadConfig returns false and the mapper is empty.
C30_ClearedBeforeCheck ==
    /\ last.op = "LoadConfig"
    /\ last.status = "fail"
    /\ ~last.value.returned
    /\ last.value.config.file = "ok"
    /\ last.value.config.mappings_type = "absent"
    /\ Len(last.value.before) = 2
    /\ m_mappings = <<>>
    /\ ~GetMapping("Hips").has_value

\* A file that cannot be opened or does not parse leaves the mappings alone.
C30_UnreadableKeepsMappings ==
    /\ last.op = "LoadConfig"
    /\ last.value.config.file \in {"unopenable", "malformed"}
    => m_mappings = last.value.before

C30_UnreadableWitness ==
    /\ last.op = "LoadConfig"
    /\ last.value.config.file = "malformed"
    /\ Len(m_mappings) = 2
    /\ m_mappings = last.value.before

\* The joints made from bone b (0-based).
JointsOfBone(joints, b) == {j \in 1..Len(joints) : joints[j].bone = b}

\* C29: whenever skeleton import succeeds, every bone of the file is exactly
\* one joint of the skeleton, named after it, under the joint of its parent
\* bone (under no joint when the bone has no parent).
C29_EveryBoneOneJoint ==
    last.op = "ImportSkeleton" /\ last.status = "ok" =>
        /\ Len(last.value) = Len(m_bones)
        /\ \A b \in 0..(Len(m_bones) - 1) :
              /\ Cardinality(JointsOfBone(last.value, b)) = 1
              /\ \A j \in JointsOfBone(last.value, b) :
                    /\ last.value[j].name = m_bones[b + 1].name
                    /\ IF m_bones[b + 1].parent = -1 THEN last.value[j].parent = -1
                       ELSE /\ last.value[j].parent >= 0
                            /\ last.value[last.value[j].parent + 1].bone =
                                  m_bones[b + 1].parent

\* A file whose import succeeds with fewer joints than bones: some bone's
\* parent index names no bone, the bone itself, or a bone that hangs on it.
C29_BoneDropped ==
    /\ last.op = "ImportSkeleton"
    /\ last.status = "ok"
    /\ Len(last.value) < Len(m_bones)
    /\ \E b \in 0..(Len(m_bones) - 1) : JointsOfBone(last.value, b) = {}

\* A chain stored leaf first imports with its three bones as three joints,
\* root first.
C29_ChainImported ==
    /\ last.op = "ImportSkeleton"
    /\ last.status = "ok"
    /\ Len(m_bones) = 3
    /\ Len(last.value) = 3
    /\ \A j \in 1..3 : last.value[j].bone = 3 - j /\ last.value[j].parent = j - 2

(***************************************************************************)
(* The numeric helpers on their own: NormalizeQuaternion                   *)
(* (coordinate_convert.h), QuatNormalize (ozz-retarget main.cc),           *)
(* GlaParser::DecomposeMatrix and BoneMapper::CombineRotations.  An input  *)
(* is drawn, then one helper is applied to it.                             *)
(***************************************************************************)
SumOfSquares(q) == q.x * q.x + q.y * q.y + q.z * q.z + q.w * q.w
HasLength(q) == \E r \in 0..(4 * One) : r * r = SumOfSquares(q)
\* sqrt(x*x + y*y + z*z + w*w), for a quaternion whose length the model carries.
Length(q) == CHOOSE r \in 0..(4 * One) : r * r = SumOfSquares(q)
UnitLength(q) == SumOfSquares(q) = One * One

\* QuatNormalize of ozz-retarget: q/len when len > 0.0001, which lies strictly
\* between 0 and the smallest positive length the model carries.
QuatNormalize(q) ==
    LET len == Length(q)
    IN  IF len > 0
        THEN Quat(FDiv(q.x, len), FDiv(q.y, len), FDiv(q.z, len), FDiv(q.w, len))
        ELSE QuatIdentity

\* The quaternions whose normalisation the model carries exactly.
Divides(len, q) ==
    /\ (q.x * One) % len = 0
    /\ (q.y * One) % len = 0
    /\ (q.z * One) % len = 0
    /\ (q.w * One) % len = 0
Normalizable(q) ==
    /\ HasLength(q)
    /\ Length(q) > 0 => Divides(Length(q), q) /\ (One * One) % Length(q) = 0
HalfCoords == {0 - One, 0 - (One \div 2), 0, One \div 2, One, 2 * One}
NumericQuaternions ==
    {q \in {Quat(x, y, z, w) : x \in HalfCoords, y \in HalfCoords, z \in HalfCoords,
                               w \in HalfCoords} :
        /\ Normalizable(q)
        /\ Cardinality({c \in {q.x, q.y, q.z, q.w} : c # 0}) \in {0, 1, 3}}

\* Bind-pose matrices: rotations by 0, 120 and 180 degrees, scaled by 1 or 2,
\* with none, one or all of the three columns zeroed.
WithColumns(m, keep) ==
    [i \in 1..3 |-> [j \in 1..4 |-> IF j \in keep \cup {4} THEN m[i][j] ELSE 0]]
ScaledMatrix(m, k) ==
    [i \in 1..3 |-> [j \in 1..4 |-> IF j = 4 THEN m[i][j] * One ELSE m[i][j] * k]]
ColumnSets == {{1, 2, 3}, {2, 3}, {1, 3}, {1, 2}, {}}
RotationToQuaternionDefined(r) ==
    LET trace == r[1][1] + r[2][2] + r[3][3]
    IN  IF trace > 0 THEN trace = 3 * One
        ELSE IF r[1][1] > r[2][2] /\ r[1][1] > r[3][3]
             THEN One + r[1][1] - r[2][2] - r[3][3] = 4 * One
        ELSE IF r[2][2] > r[3][3] THEN One + r[2][2] - r[1][1] - r[3][3] = 4 * One
        ELSE One + r[3][3] - r[1][1] - r[2][2] \in {One, 4 * One}
BindPoses ==
    {m \in {WithColumns(ScaledMatrix(p, k), keep) :
                p \in {PoseA, PoseB, PoseC}, k \in {One, 2 * One}, keep \in ColumnSets} :
        RotationToQuaternionDefined(NormalizedRotation(m))}

\* BoneMapper::CombineRotations.  a is a reference to result, so each
\* component assigned is read back by the assignments after it.
MultiplyInPlace(a, b) ==
    LET x == FMul(a.w, b.x) + FMul(a.x, b.w) + FMul(a.y, b.z) - FMul(a.z, b.y)
        y == FMul(a.w, b.y) - FMul(x, b.z) + FMul(a.y, b.w) + FMul(a.z, b.x)
        z == FMul(a.w, b.z) + FMul(x, b.y) - FMul(y, b.x) + FMul(a.z, b.w)
        w == FMul(a.w, b.w) - FMul(x, b.x) - FMul(y, b.y) - FMul(z, b.z)
    IN  Quat(x, y, z, w)

RECURSIVE CombineFrom(_, _, _)
CombineFrom(result, rotations, i) ==
    IF i > Len(rotations) THEN result
    ELSE CombineFrom(MultiplyInPlace(result, rotations[i]), rotations, i + 1)

NormalizeIfLong(result) ==
    LET len == Length(result)
    IN  IF len > 0
        THEN Quat(FDiv(result.x, len), FDiv(result.y, len), FDiv(result.z, len),
                  FDiv(result.w, len))
        ELSE result

CombineRotations(rotations) ==
    IF rotations = <<>> THEN QuatIdentity
    ELSE NormalizeIfLong(CombineFrom(rotations[1], rotations, 2))

\* Unit quaternions: the identity, the half turns about X, Y and Z, and the
\* thirds of a turn about the diagonals.
HalfTurnX == Quat(One, 0, 0, 0)
HalfTurnY == Quat(0, One, 0, 0)
HalfTurnZ == Quat(0, 0, One, 0)
ThirdTurn == Quat(One \div 2, One \div 2, One \div 2, One \div 2)
ThirdTurnBack == Quat(0 - (One \div 2), 0 - (One \div 2), 0 - (One \div 2), One \div 2)
UnitRotations == {QuatIdentity, HalfTurnX, HalfTurnY, HalfTurnZ, ThirdTurn, ThirdTurnBack}
WholeRotations == {QuatIdentity, HalfTurnX, HalfTurnY, HalfTurnZ}
RotationLists ==
    {rs \in {<<>>} \cup {<<a>> : a \in UnitRotations}
               \cup {<<a, b>> : a \in UnitRotations, b \in UnitRotations}
               \cup {<<a, b, c>> : a \in WholeRotations, b \in WholeRotations,
                                   c \in WholeRotations} :
        rs = <<>> \/ Normalizable(CombineFrom(rs[1], rs, 2))}

Drawn(op, in) ==
    [op |-> op, frame |-> 0, bone |-> 0, status |-> "ok",
     value |-> [in |-> in], stages |-> <<>>, reads |-> {}]
Applied(op, out) ==
    [last EXCEPT !.op = op, !.value = [in |-> last.value.in, out |-> out]]

InitNumeric ==
    /\ m_file_data = <<>>
    /\ m_header = ZeroHeader
    /\ m_bones = <<>>
    /\ m_frame_data = NullPtr
    /\ m_bone_pool = NullPtr
    /\ m_frame_data_size = 0
    /\ m_bone_pool_size = 0
    /\ capacity = 0
    /\ epoch = 0
    /\ loads = 0
    /\ loaded = FALSE
    /\ m_clips = <<>>
    /\ m_mappings = <<>>
    /\ m_source_bone_map = NoBones
    /\ m_target_bone_map = NoBones
    /\ retarget = NotStarted
    /\ crashed = FALSE
    /\ \/ \E q \in NumericQuaternions : last = Drawn("Quaternion", q)
       \/ \E m \in BindPoses : last = Drawn("GlaMatrix34", m)
       \/ \E rs \in RotationLists : last = Drawn("Rotations", rs)

CallNormalizeQuaternion ==
    /\ last.op = "Quaternion"
    /\ last' = Applied("NormalizeQuaternion", NormalizeQuaternion(last.value.in))
    /\ UNCHANGED <<parserVars, crashed>>

CallQuatNormalize ==
    /\ last.op = "Quaternion"
    /\ last' = Applied("QuatNormalize", QuatNormalize(last.value.in))
    /\ UNCHANGED <<parserVars, crashed>>

CallDecomposeMatrix ==
    /\ last.op = "GlaMatrix34"
    /\ last' = Applied("DecomposeMatrix", DecomposeMatrix(last.value.in))
    /\ UNCHANGED <<parserVars, crashed>>

CallCombineRotations ==
    /\ last.op = "Rotations"
    /\ last' = Applied("CombineRotations", CombineRotations(last.value.in))
    /\ UNCHANGED <<parserVars, crashed>>

NextNumeric ==
    \/ CallNormalizeQuaternion
    \/ CallQuatNormalize
    \/ CallDecomposeMatrix
    \/ CallCombineRotations

SpecNumeric == InitNumeric /\ [][NextNumeric]_vars

ZeroColumns(m) == {j \in 1..3 : m[1][j] = 0 /\ m[2][j] = 0 /\ m[3][j] = 0}
AxisColumn(m, j) == \A i \in 1..3 : m[i][j] = (IF i = j THEN One ELSE 0)
ScaleAt(scale, j) == IF j = 1 THEN scale.x ELSE IF j = 2 THEN scale.y ELSE scale.z

\* C27 (as stated): degenerate input is replaced by an identity fallback:
\* NormalizeQuaternion and QuatNormalize return (0,0,0,1) for the zero
\* quaternion and a unit-length quaternion otherwise, and DecomposeMatrix of a
\* bind pose with a zero-magnitude column returns scale 1, not 0, for that
\* column, and the identity rotation when the other columns are unit axes.
C27_DegenerateGivesIdentity ==
    /\ last.op \in {"NormalizeQuaternion", "QuatNormalize"} =>
          IF SumOfSquares(last.value.in) = 0 THEN last.value.out = QuatIdentity
          ELSE UnitLength(last.value.out)
    /\ (last.op = "DecomposeMatrix" /\ ZeroColumns(last.value.in) # {}) =>
          /\ \A j \in ZeroColumns(last.value.in) : ScaleAt(last.value.out.scale, j) = One
          /\ (\A j \in 1..3 \ ZeroColumns(last.value.in) : AxisColumn(last.value.in, j))
                => last.value.out.rotation = QuatIdentity

\* DecomposeMatrix of the identity matrix with its first column zeroed: the
\* rotation is the identity and the scale is (0, 1, 1).
C27_ZeroScaleReturned ==
    /\ last.op = "DecomposeMatrix"
    /\ ZeroColumns(last.value.in) = {1}
    /\ AxisColumn(last.value.in, 2) /\ AxisColumn(last.value.in, 3)
    /\ last.value.out.rotation = QuatIdentity
    /\ last.value.out.scale = Float3(0, One, One)

\* The quaternion half of C27, and the rotation of a degenerate matrix.
C27_QuaternionFallback ==
    /\ last.op \in {"NormalizeQuaternion", "QuatNormalize"} =>
          IF SumOfSquares(last.value.in) = 0 THEN last.value.out = QuatIdentity
          ELSE UnitLength(last.value.out)
    /\ (last.op = "DecomposeMatrix" /\ ZeroColumns(last.value.in) = {1, 2, 3}) =>
          last.value.out.rotation = QuatIdentity

C27_ZeroQuaternionWitness ==
    /\ last.op = "QuatNormalize"
    /\ last.value.in = Quat(0, 0, 0, 0)
    /\ last.value.out = QuatIdentity

C27_UnitWitness ==
    /\ last.op = "NormalizeQuaternion"
    /\ last.value.in = Quat(2 * One, 0, 0, 0)
    /\ last.value.out = Quat(One, 0, 0, 0)

\* r0 * r1 * ... * rn, the Hamilton product in list order.
RECURSIVE HamiltonProduct(_)
HamiltonProduct(rs) ==
    IF rs = <<>> THEN QuatIdentity
    ELSE IF Len(rs) = 1 THEN rs[1]
    ELSE QuaternionMultiply(HamiltonProduct(SubSeq(rs, 1, Len(rs) - 1)), rs[Len(rs)])

\* C22 (as stated): CombineRotations returns the Hamilton product of its
\* inputs in list order, normalised: the empty list and a list of identity
\* rotations give the identity, a single rotation is returned unchanged, and
\* the result always has unit length.
C22_HamiltonProductInOrder ==
    last.op = "CombineRotations" =>
        /\ last.value.out = HamiltonProduct(last.value.in)
        /\ UnitLength(last.value.out)
        /\ Len(last.value.in) = 1 => last.value.out = last.value.in[1]
        /\ (\A i \in 1..Len(last.value.in) : last.value.in[i] = QuatIdentity)
              => last.value.out = QuatIdentity

\* Two half turns about Y: the product is (0, 0, 0, -1); CombineRotations
\* returns the zero quaternion.
C22_ZeroReturned ==
    /\ last.op = "CombineRotations"
    /\ last.value.in = <<HalfTurnY, HalfTurnY>>
    /\ HamiltonProduct(last.value.in) = Quat(0, 0, 0, 0 - One)
    /\ last.value.out = Quat(0, 0, 0, 0)

\* A half turn about Y then one about X: the product is not the zero
\* quaternion either, and the result is not of unit length.
C22_NotUnitLength ==
    /\ last.op = "CombineRotations"
    /\ last.value.in = <<HalfTurnY, HalfTurnX>>
    /\ HamiltonProduct(last.value.in) = Quat(0, 0, 0 - One, 0)
    /\ ~UnitLength(last.value.out)

\* What holds: lists of at most one rotation, lists of identity rotations and
\* lists whose every product leaves x, y and z as they were.
C22_ShortListsCombined ==
    last.op = "CombineRotations" =>
        /\ Len(last.value.in) <= 1 => last.value.out = HamiltonProduct(last.value.in)
        /\ (\A i \in 1..Len(last.value.in) : last.value.in[i] = QuatIdentity)
              => last.value.out = QuatIdentity
        /\ last.value.in = <<ThirdTurn, ThirdTurn>> =>
              last.value.out = Quat(One \div 2, One \div 2, One \div 2, 0 - (One \div 2))

C22_SingleWitness ==
    /\ last.op = "CombineRotations"
    /\ last.value.in = <<ThirdTurn>>
    /\ last.value.out = ThirdTurn

C22_SquareWitness ==
    /\ last.op = "CombineRotations"
    /\ last.value.in = <<ThirdTurn, ThirdTurn>>
    /\ UnitLength(last.value.out)

(***************************************************************************)
(* BoneMapper: the bone maps (bone_mapper.cc).                             *)
(***************************************************************************)
\* The map built by the loop m[bone_names[i]] = i: a name that occurs more
\* than once keeps the index assigned last.
BuildBoneMap(bone_names) ==
    [name \in {bone_names[i] : i \in 1..Len(bone_names)} |->
        (CHOOSE i \in 1..Len(bone_names) :
            /\ bone_names[i] = name
            /\ \A j \in (i + 1)..Len(bone_names) : bone_names[j] # name) - 1]

\* find(name): the index, with 0 for a name that is not in the map.
GetBoneIndexOrZero(bone_map, name) ==
    IF name \in DOMAIN bone_map THEN bone_map[name] ELSE 0
GetBoneIndex(bone_map, name) ==
    IF name \in DOMAIN bone_map THEN bone_map[name] ELSE -1
GetSourceBoneIndex(name) == GetBoneIndex(m_source_bone_map, name)
GetTargetBoneIndex(name) == GetBoneIndex(m_target_bone_map, name)

\* The name lists of the test, and lists with a repeated name or no name.
SourceNames == <<"model_root", "pelvis", "lfemurYZ", "lfemurX", "ltibia">>
TargetNames == <<"Hips", "Spine", "LeftUpLeg">>
NameLists ==
    {SourceNames, TargetNames, <<"pelvis", "lfemurYZ", "pelvis">>, <<"Spine">>, <<>>}
LookedUpNames == {"pelvis", "lfemurYZ", "Hips", "LeftUpLeg", "Spine", "nonexistent"}

CallBuildSourceBoneMap ==
    /\ ~crashed
    /\ retarget = NotStarted
    /\ \E bone_names \in NameLists :
         /\ m_source_bone_map' = BuildBoneMap(bone_names)
         /\ Returns("BuildSourceBoneMap", 0, 0,
                    MapperReturn("ok", [bone_names |-> bone_names,
                                        before |-> m_source_bone_map]))
    /\ UNCHANGED <<m_file_data, m_header, m_bones, m_frame_data, m_bone_pool,
                   m_frame_data_size, m_bone_pool_size, capacity, epoch, loads,
                   loaded, m_clips, m_mappings, m_target_bone_map, retarget>>

CallBuildTargetBoneMap ==
    /\ ~crashed
    /\ retarget = NotStarted
    /\ \E bone_names \in NameLists :
         /\ m_target_bone_map' = BuildBoneMap(bone_names)
         /\ Returns("BuildTargetBoneMap", 0, 0,
                    MapperReturn("ok", [bone_names |-> bone_names,
                                        before |-> m_target_bone_map]))
    /\ UNCHANGED <<m_file_data, m_header, m_bones, m_frame_data, m_bone_pool,
                   m_frame_data_size, m_bone_pool_size, capacity, epoch, loads,
                   loaded, m_clips, m_mappings, m_source_bone_map, retarget>>

CallGetSourceBoneIndex ==
    /\ ~crashed
    /\ retarget = NotStarted
    /\ \E name \in LookedUpNames :
         Returns("GetSourceBoneIndex", 0, 0,
                 MapperReturn("ok", [name |-> name, index |-> GetSourceBoneIndex(name)]))
    /\ UNCHANGED parserVars

CallGetTargetBoneIndex ==
    /\ ~crashed
    /\ retarget = NotStarted
    /\ \E name \in LookedUpNames :
         Returns("GetTargetBoneIndex", 0, 0,
                 MapperReturn("ok", [name |-> name, index |-> GetTargetBoneIndex(name)]))
    /\ UNCHANGED parserVars

(***************************************************************************)
(* ozz-retarget (tools/ozz-retarget/main.cc).  main is taken in steps: the *)
(* part up to the frame loop, one pass of the frame loop, and the part     *)
(* after it.  A skeleton is [names, parents, rest_poses], joints in the    *)
(* order of the runtime skeleton (a parent before its children); the SoA   *)
(* lanes of the runtime structures are carried as one element per joint.   *)
(***************************************************************************)
QuatInverse(q) == Quat(0 - q.x, 0 - q.y, 0 - q.z, q.w)
QuatMul(a, b) ==
    Quat(FMul(a.w, b.x) + FMul(a.x, b.w) + FMul(a.y, b.z) - FMul(a.z, b.y),
         FMul(a.w, b.y) - FMul(a.x, b.z) + FMul(a.y, b.w) + FMul(a.z, b.x),
         FMul(a.w, b.z) + FMul(a.x, b.y) - FMul(a.y, b.x) + FMul(a.z, b.w),
         FMul(a.w, b.w) - FMul(a.x, b.x) - FMul(a.y, b.y) - FMul(a.z, b.z))
\* WorldToLocal as world * inverse(parent_world).
WorldToLocalRight(world, parent_world) == QuatMul(world, QuatInverse(parent_world))
WorldToLocal(world, parent_world) == QuatMul(QuatInverse(parent_world), world)

Transform(translation, rotation, scale) ==
    [translation |-> translation, rotation |-> rotation, scale |-> scale]
ExtractTranslation(soa, joint) == soa[joint + 1].translation
ExtractRotation(soa, joint) == soa[joint + 1].rotation
ExtractScale(soa, joint) == soa[joint + 1].scale

\* static_cast<int>(x) of the quotient n/d: truncation towards zero.
Truncated(n, d) == IF n >= 0 THEN n \div d ELSE 0 - ((0 - n) \div d)
Max(a, b) == IF a >= b THEN a ELSE b
\* static_cast<int>(duration * sample_rate) + 1 rounding towards minus infinity.
NumKeyframesFloor(duration, sample_rate) ==
    ((duration * sample_rate) \div (TimeScale * One)) + 1
NumKeyframes(duration, sample_rate) ==
    Truncated(duration * sample_rate, TimeScale * One) + 1
TimeStep(duration, num_keyframes) == Exact(duration, Max(1, num_keyframes - 1))

\* A SamplingJob::Run whose result is not tested.
SamplingUntested(animation, source_skeleton, frame) == FALSE
\* SamplingJob::Run on the source animation: false when the job is invalid
\* (the context and the output, sized from the source skeleton, are too
\* small for the animation's tracks) or when the runtime reports a failure
\* at that frame.
SamplingFails(animation, source_skeleton, frame) ==
    \/ animation.num_tracks > Len(source_skeleton.names)
    \/ frame \in animation.fails
\* The locals sampled at a time: the animation is keyed at whole seconds, and
\* the sample times fall on its keys.
SampledLocals(animation, time) == animation.poses[Exact(time, TimeScale) + 1]

\* BoneMappingInfo of one target joint (main.cc, before the frame loop).
RECURSIVE ResolvedIndices(_, _)
ResolvedIndices(source_bones, source_bone_map) ==
    IF source_bones = <<>> THEN <<>>
    ELSE (IF GetBoneIndex(source_bone_map, Head(source_bones)) >= 0
          THEN <<GetBoneIndex(source_bone_map, Head(source_bones))>> ELSE <<>>)
            \o ResolvedIndices(Tail(source_bones), source_bone_map)
NotMapped ==
    [is_mapped |-> FALSE, source_indices |-> <<>>, combine_rotations |-> FALSE,
     correction |-> QuatIdentity, has_correction |-> FALSE]
BoneMappingInfo(mapping_opt, source_bone_map) ==
    IF mapping_opt.has_value /\ ~is_unmapped(mapping_opt.value)
    THEN [is_mapped |-> TRUE,
          source_indices |-> ResolvedIndices(mapping_opt.value.source_bones,
                                             source_bone_map),
          combine_rotations |-> is_combined(mapping_opt.value),
          correction |-> mapping_opt.value.correction,
          has_correction |-> mapping_opt.value.has_correction]
    ELSE NotMapped
MappingInfos(target_names, mappings, source_bone_map) ==
    [t \in 1..Len(target_names) |->
        BoneMappingInfo(GetMappingIn(mappings, target_names[t]), source_bone_map)]

\* An element of source_world_rotations or target_world_rotations: its value
\* and the frame in which it was assigned (-1: never).  The vectors are
\* constructed without initial values.
Unassigned == [value |-> Quat(0, 0, 0, 0), frame |-> -1]
Assigned(value, frame) == [value |-> value, frame |-> frame]
ElementRead(array, index, element, frame) ==
    [array |-> array, index |-> index, written |-> element.frame, frame |-> frame]

\* The loop over the source joints: acc is [rotations, reads].
SourceWorldStep(acc, i, parents, locals, frame) ==
    IF parents[i + 1] < 0
    THEN [rotations |-> [acc.rotations EXCEPT
                            ![i + 1] = Assigned(ExtractRotation(locals, i), frame)],
          reads |-> acc.reads]
    ELSE [rotations |-> [acc.rotations EXCEPT
                            ![i + 1] = Assigned(
                                QuatMul(acc.rotations[parents[i + 1] + 1].value,
                                        ExtractRotation(locals, i)), frame)],
          reads |-> acc.reads \cup {ElementRead("source", parents[i + 1],
                                           acc.rotations[parents[i + 1] + 1], frame)}]
RECURSIVE SourceWorldLoop(_, _, _, _, _)
SourceWorldLoop(acc, i, parents, locals, frame) ==
    IF i >= Len(parents) THEN acc
    ELSE SourceWorldLoop(SourceWorldStep(acc, i, parents, locals, frame), i + 1,
                         parents, locals, frame)

\* combined_local: the local rotations of source_indices[j..], multiplied on
\* the right of combined.
RECURSIVE CombinedLocal(_, _, _, _)
CombinedLocal(combined, source_indices, j, locals) ==
    IF j > Len(source_indices) THEN combined
    ELSE CombinedLocal(QuatMul(combined, ExtractRotation(locals, source_indices[j])),
                       source_indices, j + 1, locals)

\* The source world rotation and the translation of a mapped joint, with the
\* elements of source_world_rotations it reads.
SourceWorld(info, source, source_parents, locals, frame) ==
    IF info.combine_rotations /\ Len(info.source_indices) > 1
    THEN LET first_src == info.source_indices[1]
             first_parent == source_parents[first_src + 1]
         IN  [rotation |->
                 QuatMul(IF first_parent < 0 THEN QuatIdentity
                         ELSE source[first_parent + 1].value,
                         CombinedLocal(ExtractRotation(locals, first_src),
                                       info.source_indices, 2, locals)),
              translation |-> ExtractTranslation(locals, first_src),
              reads |-> IF first_parent < 0 THEN {}
                        ELSE {ElementRead("source", first_parent, source[first_parent + 1],
                                     frame)}]
    ELSE [rotation |-> source[info.source_indices[1] + 1].value,
          translation |-> ExtractTranslation(locals, info.source_indices[1]),
          reads |-> {ElementRead("source", info.source_indices[1],
                            source[info.source_indices[1] + 1], frame)}]

\* The correction applied on the left of the source world rotation.
CorrectedLeft(info, source_world) ==
    IF info.has_correction THEN QuatNormalize(QuatMul(info.correction, source_world))
    ELSE source_world
Corrected(info, source_world) ==
    IF info.has_correction THEN QuatNormalize(QuatMul(source_world, info.correction))
    ELSE source_world

\* The keyframe values of a joint that is mapped and has a resolved source.
MappedLocal(info, source, source_parents, locals, target_parent_world, frame) ==
    LET src == SourceWorld(info, source, source_parents, locals, frame)
    IN  [translation |-> src.translation,
         rotation |-> QuatNormalize(WorldToLocal(Corrected(info, src.rotation),
                                                 target_parent_world)),
         scale |-> Float3(One, One, One),
         reads |-> src.reads]

\* The unmapped branch with the scale left at its initial (1, 1, 1).
RestLocalUnitScale(rest) ==
    [translation |-> rest.translation, rotation |-> rest.rotation,
     scale |-> Float3(One, One, One), reads |-> {}]
\* The unmapped branch: the rest pose of the target joint.
RestLocal(rest) ==
    [translation |-> rest.translation, rotation |-> rest.rotation,
     scale |-> rest.scale, reads |-> {}]

\* The test of the unmapped branch without the test for resolved sources.
IsUnmappedByFlag(info) == ~info.is_mapped
IsUnmapped(info) == ~info.is_mapped \/ info.source_indices = <<>>

\* target_parent_world read from the element of the joint itself.
TargetParentOwn(target, target_idx, target_parent) ==
    IF target_parent < 0 THEN Assigned(QuatIdentity, -2) ELSE target[target_idx + 1]
\* target_parent_world: the identity for a root, else the parent's element.
TargetParent(target, target_idx, target_parent) ==
    IF target_parent < 0 THEN Assigned(QuatIdentity, -2) ELSE target[target_parent + 1]

\* One pass of the loop over the target joints: acc is [rotations, reads, keys].
TargetStep(acc, t, run, source, locals) ==
    LET target_parent == run.args.target_skeleton.parents[t + 1]
        parent == TargetParent(acc.rotations, t, target_parent)
        info == run.mapping_infos[t + 1]
        local == IF IsUnmapped(info)
                 THEN RestLocal(run.args.target_skeleton.rest_poses[t + 1])
                 ELSE MappedLocal(info, source, run.args.source_skeleton.parents,
                                  locals, parent.value, run.frame)
    IN  [rotations |-> [acc.rotations EXCEPT
                            ![t + 1] = Assigned(QuatMul(parent.value, local.rotation),
                                                run.frame)],
         reads |-> acc.reads \cup local.reads
                      \cup (IF target_parent < 0 THEN {}
                            ELSE {ElementRead("target", target_parent, parent, run.frame)}),
         keys |-> Append(acc.keys, Transform(local.translation, local.rotation,
                                             local.scale))]
RECURSIVE TargetLoop(_, _, _, _, _)
TargetLoop(acc, t, run, source, locals) ==
    IF t >= Len(run.args.target_skeleton.names) THEN acc
    ELSE TargetLoop(TargetStep(acc, t, run, source, locals), t + 1, run, source, locals)

\* track with the three keys of one frame pushed.
PushKeys(track, time, key) ==
    [translations |-> Append(track.translations, Key(time, key.translation)),
     rotations |-> Append(track.rotations, Key(time, key.rotation)),
     scales |-> Append(track.scales, Key(time, key.scale))]

\* The body of the frame loop after a successful sampling.
FrameFrom(run, src, tgt, time) ==
    [run EXCEPT !.frame = run.frame + 1,
                !.source_world_rotations = src.rotations,
                !.target_world_rotations = tgt.rotations,
                !.reads = src.reads \cup tgt.reads,
                !.tracks = [t \in 1..Len(run.tracks) |->
                               PushKeys(run.tracks[t], time, tgt.keys[t])]]
FrameAfterSource(run, src, locals, time) ==
    FrameFrom(run, src,
              TargetLoop([rotations |-> run.target_world_rotations, reads |-> {},
                          keys |-> <<>>], 0, run, src.rotations, locals),
              time)
Exit(run, exit_code) == [run EXCEPT !.pc = "exited", !.exit_code = exit_code]
Frame(run) ==
    IF SamplingFails(run.args.animation, run.args.source_skeleton, run.frame)
    THEN [Exit(run, 1) EXCEPT !.reported = run.frame]
    ELSE FrameAfterSource(
            run,
            SourceWorldLoop([rotations |-> run.source_world_rotations, reads |-> {}], 0,
                            run.args.source_skeleton.parents,
                            SampledLocals(run.args.animation, run.frame * run.time_step),
                            run.frame),
            SampledLocals(run.args.animation, run.frame * run.time_step),
            run.frame * run.time_step)

\* main up to the frame loop, after LoadConfig returned true.
Prepared(args, mappings, source_bone_map) ==
    [pc |-> "frames", exit_code |-> -1, reported |-> -1, args |-> args,
     num_keyframes |-> NumKeyframes(args.animation.duration, args.sample_rate),
     time_step |-> TimeStep(args.animation.duration,
                            NumKeyframes(args.animation.duration, args.sample_rate)),
     mapping_infos |-> MappingInfos(args.target_skeleton.names, mappings,
                                    source_bone_map),
     frame |-> 0,
     source_world_rotations |-> [i \in 1..Len(args.source_skeleton.names) |-> Unassigned],
     target_world_rotations |-> [i \in 1..Len(args.target_skeleton.names) |-> Unassigned],
     reads |-> {},
     tracks |-> [t \in 1..Len(args.target_skeleton.names) |->
                    [translations |-> <<>>, rotations |-> <<>>, scales |-> <<>>]],
     output |-> <<>>]

\* main after the frame loop: Validate, the AnimationBuilder (which fails on
\* what Validate rejects) and SaveAnimation.
Finished(run) ==
    IF ~ValidateAnimation([name |-> "retargeted",
                           duration |-> run.args.animation.duration,
                           tracks |-> run.tracks])
    THEN Exit(run, 1)
    ELSE IF ~run.args.writable THEN Exit(run, 1)
    ELSE [Exit(run, 0) EXCEPT
             !.output = [name |-> "retargeted", duration |-> run.args.animation.duration,
                         tracks |-> run.tracks]]

\* The runs of ozz-retarget: source skeletons with and without "lfemurX" and
\* one with fewer joints than the animation has tracks; animations of two and
\* of one second keyed every second; a target skeleton of four joints.
UnitScale == Float3(One, One, One)
RetargetSource == Skeleton(<<"pelvis", "lfemurYZ", "lfemurX">>, <<-1, 0, 1>>)
RetargetSourceOther == Skeleton(<<"pelvis", "lfemurYZ", "ltibia">>, <<-1, 0, 1>>)
RetargetSourceShort == Skeleton(<<"pelvis", "lfemurYZ">>, <<-1, 0>>)
RetargetTarget ==
    [names |-> <<"Hips", "Spine", "LeftUpLeg", "Index1">>,
     parents |-> <<-1, 0, 0, 2>>,
     rest_poses |-> <<Transform(Float3(0, One, 0), HalfTurnX, UnitScale),
                      Transform(Float3(0, 2 * One, 0), ThirdTurn, Float3(2 * One, One, One)),
                      Transform(Float3(One, 0, 0), QuatIdentity, UnitScale),
                      Transform(Float3(0, 0, One), HalfTurnZ, Float3(One, 3 * One, One))>>]
Pose(f, r1, r2, r3) ==
    <<Transform(Float3(f * One, One, 0), r1, UnitScale),
      Transform(Float3(f * One, 2 * One, 0), r2, UnitScale),
      Transform(Float3(f * One, 3 * One, 0), r3, UnitScale)>>
AnimWalk(fails) ==
    [duration |-> 2 * TimeScale, num_tracks |-> 3, fails |-> fails,
     poses |-> <<Pose(1, HalfTurnX, ThirdTurn, ThirdTurnBack),
                 Pose(2, ThirdTurn, HalfTurnY, HalfTurnZ),
                 Pose(3, HalfTurnZ, ThirdTurnBack, HalfTurnX)>>]
AnimTurn(fails) ==
    [duration |-> TimeScale, num_tracks |-> 3, fails |-> fails,
     poses |-> <<Pose(4, HalfTurnY, HalfTurnY, ThirdTurn),
                 Pose(5, ThirdTurnBack, HalfTurnX, ThirdTurn)>>]
MappedConfig == ConfigFile("ok", "array", <<SingleEntry, CombinedEntry, UnmappedEntry>>)
CorrectedConfig ==
    ConfigFile("ok", "array", <<CorrectedEntry, OneStringEntry, CombinedEntry>>)
UnmappedConfig == ConfigFile("ok", "array", <<UnmappedEntry, RepeatedEntry>>)
RetargetConfigs ==
    {MappedConfig, CorrectedConfig, UnmappedConfig, ConfigFile("ok", "array", <<>>),
     ConfigFile("ok", "absent", <<>>),
     ConfigFile("ok", "array", <<SingleEntry, StringAngleEntry>>)}
SampleRates == {0, One \div 2, (3 * One) \div 4, One, 0 - ((3 * One) \div 4), 0 - One}
RetargetArgs ==
    {[source_skeleton |-> s, target_skeleton |-> RetargetTarget, animation |-> a,
      config |-> c, sample_rate |-> r, writable |-> w] :
        s \in {RetargetSource, RetargetSourceOther, RetargetSourceShort},
        a \in {AnimWalk({}), AnimWalk({1}), AnimTurn({}), AnimTurn({0})},
        c \in RetargetConfigs, r \in SampleRates, w \in BOOLEAN}

glaVars == <<m_file_data, m_header, m_bones, m_frame_data, m_bone_pool,
             m_frame_data_size, m_bone_pool_size, capacity, epoch, loads, loaded,
             m_clips>>

\* main from its start to the frame loop: LoadConfig (an exception it throws
\* is not caught), the bone maps, num_keyframes and the mapping infos.
RetargetStart ==
    /\ ~crashed
    /\ retarget = NotStarted
    /\ \E args \in RetargetArgs :
         \E cfg \in {LoadConfig(args.config)} :
            /\ m_mappings' = cfg.mappings
            /\ m_source_bone_map' = IF cfg.returned
                                    THEN BuildBoneMap(args.source_skeleton.names)
                                    ELSE m_source_bone_map
            /\ m_target_bone_map' = IF cfg.returned
                                    THEN BuildBoneMap(args.target_skeleton.names)
                                    ELSE m_target_bone_map
            /\ retarget' = IF cfg.returned
                           THEN Prepared(args, cfg.mappings,
                                         BuildBoneMap(args.source_skeleton.names))
                           ELSE IF cfg.status = "throw"
                           THEN [NotStarted EXCEPT !.pc = "terminated", !.args = args]
                           ELSE [Exit(NotStarted, 1) EXCEPT !.args = args]
            /\ Returns("main", 0, 0, MapperReturn(cfg.status, [returned |-> cfg.returned]))
    /\ UNCHANGED glaVars

\* One pass of the frame loop.  Reading an element of the world rotation
\* vectors that was never assigned is a read of an indeterminate value.
RetargetFrame ==
    /\ ~crashed
    /\ retarget.pc = "frames"
    /\ retarget.frame < retarget.num_keyframes
    /\ \E run \in {Frame(retarget)} :
         /\ retarget' = run
         /\ Returns("frame", retarget.frame, 0,
                    MapperReturn(IF \E rd \in run.reads : rd.written = -1 THEN "ub"
                                 ELSE IF run.pc = "exited" THEN "fail" ELSE "ok",
                                 [reported |-> run.reported]))
    /\ UNCHANGED <<glaVars, m_mappings, m_source_bone_map, m_target_bone_map>>

\* main after the frame loop.
RetargetFinish ==
    /\ ~crashed
    /\ retarget.pc = "frames"
    /\ retarget.frame >= retarget.num_keyframes
    /\ \E run \in {Finished(retarget)} :
         /\ retarget' = run
         /\ Returns("exit", retarget.frame, 0,
                    MapperReturn(IF run.exit_code = 0 THEN "ok" ELSE "fail",
                                 [reported |-> run.reported]))
    /\ UNCHANGED <<glaVars, m_mappings, m_source_bone_map, m_target_bone_map>>

NextRetarget ==
    \/ CallBuildSourceBoneMap
    \/ CallBuildTargetBoneMap
    \/ CallGetSourceBoneIndex
    \/ CallGetTargetBoneIndex
    \/ RetargetStart
    \/ RetargetFrame
    \/ RetargetFinish

SpecRetarget == Init /\ [][NextRetarget]_vars

(***************************************************************************)
(* ozz-retarget: the claims.                                               *)
(***************************************************************************)
NamesOf(bone_names) == {bone_names[i] : i \in 1..Len(bone_names)}
\* bone_map maps exactly the names of bone_names, each to a place it has there.
MapsNames(bone_map, bone_names) ==
    /\ DOMAIN bone_map = NamesOf(bone_names)
    /\ \A name \in DOMAIN bone_map :
          /\ bone_map[name] \in 0..(Len(bone_names) - 1)
          /\ bone_names[bone_map[name] + 1] = name
\* The index returned for name is the one bone_map holds, -1 when it holds none.
LooksUp(bone_map, name, index) ==
    IF name \in DOMAIN bone_map THEN index = bone_map[name] ELSE index = -1

\* The target joints (counted from 1) whose mapping names sources none of
\* which is a joint of the source skeleton.
Running == retarget.pc \in {"frames", "exited"} /\ retarget.tracks # <<>>
UnresolvedJoints ==
    {t \in 1..Len(retarget.args.target_skeleton.names) :
        LET opt == GetMapping(retarget.args.target_skeleton.names[t])
        IN  /\ opt.has_value
            /\ opt.value.source_bones # <<>>
            /\ NamesOf(opt.value.source_bones)
                  \cap NamesOf(retarget.args.source_skeleton.names) = {}}
\* Every key of the track of joint t holds the joint's rest pose.
KeyedAtRest(t) ==
    LET rest == retarget.args.target_skeleton.rest_poses[t]
        track == retarget.tracks[t]
    IN  /\ \A k \in 1..Len(track.translations) :
              track.translations[k].value = rest.translation
        /\ \A k \in 1..Len(track.rotations) : track.rotations[k].value = rest.rotation
        /\ \A k \in 1..Len(track.scales) : track.scales[k].value = rest.scale

\* C21: BuildSourceBoneMap and BuildTargetBoneMap leave a map of exactly the
\* names of the list given, each to an index at which the list has it;
\* GetSourceBoneIndex and GetTargetBoneIndex return the index of a name of
\* the map and -1 for any other name; and a target joint whose source names
\* all resolve to -1 is keyed with its rest pose in every frame.
C21_NamesResolveOrMinusOne ==
    /\ last.op = "BuildSourceBoneMap" => MapsNames(m_source_bone_map, last.value.bone_names)
    /\ last.op = "BuildTargetBoneMap" => MapsNames(m_target_bone_map, last.value.bone_names)
    /\ last.op = "GetSourceBoneIndex" =>
          LooksUp(m_source_bone_map, last.value.name, last.value.index)
    /\ last.op = "GetTargetBoneIndex" =>
          LooksUp(m_target_bone_map, last.value.name, last.value.index)
    /\ Running => \A t \in UnresolvedJoints : KeyedAtRest(t)

\* "Index1" is mapped to "lfemurX", which the source skeleton does not have:
\* its two keys hold the rest pose, and the retarget goes on.
C21_UnresolvedKeyedAtRest ==
    /\ Running
    /\ retarget.exit_code = 0
    /\ retarget.args.source_skeleton = RetargetSourceOther
    /\ 4 \in UnresolvedJoints
    /\ Len(retarget.tracks[4].rotations) = 2
    /\ retarget.tracks[4].rotations[2].value = HalfTurnZ
    /\ retarget.tracks[4].scales[2].value = Float3(One, 3 * One, One)

C21_AbsentNameWitness ==
    /\ last.op = "GetSourceBoneIndex"
    /\ m_source_bone_map = BuildBoneMap(SourceNames)
    /\ last.value.name = "nonexistent"
    /\ last.value.index = -1

C21_PresentNameWitness ==
    /\ last.op = "GetTargetBoneIndex"
    /\ m_target_bone_map = BuildBoneMap(TargetNames)
    /\ last.value.name = "LeftUpLeg"
    /\ last.value.index = 2

C21_RebuildWitness ==
    /\ last.op = "BuildSourceBoneMap"
    /\ "lfemurX" \in DOMAIN last.value.before
    /\ last.value.bone_names = <<"pelvis", "lfemurYZ", "pelvis">>
    /\ DOMAIN m_source_bone_map = {"pelvis", "lfemurYZ"}
    /\ m_source_bone_map["pelvis"] = 2

\* Every target joint is unmapped: it has no mapping, or one without sources.
AllUnmapped ==
    \A t \in 1..Len(retarget.args.target_skeleton.names) :
        LET opt == GetMapping(retarget.args.target_skeleton.names[t])
        IN  ~opt.has_value \/ opt.value.source_bones = <<>>

C23_NoEntryWitness ==
    /\ Running
    /\ m_mappings = <<>>
    /\ retarget.args.animation = AnimTurn({})
    /\ retarget.frame = 2
    /\ retarget.tracks[4].rotations[2].value = HalfTurnZ

\* The runs that ended with the output written.
Completed == retarget.pc = "exited" /\ retarget.exit_code = 0
\* floor(duration * sample_rate) + 1, duration in 1/TimeScale s and the rate
\* in 1/One per second.
FloorKeyframes ==
    ((retarget.args.animation.duration * retarget.args.sample_rate)
        \div (TimeScale * One)) + 1
\* keys holds n keys, the k-th (from 0) at time k * duration / max(1, n - 1).
UniformKeys(keys, n, duration) ==
    /\ Len(keys) = n
    /\ \A k \in 1..Len(keys) : keys[k].time * Max(1, n - 1) = (k - 1) * duration
    /\ n > 1 => keys[n].time = duration

\* C24 (as stated): the output has floor(duration * sampleRate) + 1 frames,
\* frame k at time k * duration / max(1, numKeyframes - 1), and every target
\* track has exactly that many translation, rotation and scale keys, the
\* first at time 0 and, when there are several, the last at the duration.
C24_UniformKeyframes ==
    Completed =>
        /\ retarget.num_keyframes = FloorKeyframes
        /\ \A t \in 1..Len(retarget.output.tracks) :
              /\ UniformKeys(retarget.output.tracks[t].translations, FloorKeyframes,
                             retarget.args.animation.duration)
              /\ UniformKeys(retarget.output.tracks[t].rotations, FloorKeyframes,
                             retarget.args.animation.duration)
              /\ UniformKeys(retarget.output.tracks[t].scales, FloorKeyframes,
                             retarget.args.animation.duration)

\* --sample-rate=-1 on the two-second animation: num_keyframes is -1, no
\* frame is processed, and an animation without keys is written.
C24_NoKeysWritten ==
    /\ Completed
    /\ retarget.args.sample_rate = 0 - One
    /\ retarget.num_keyframes = -1
    /\ \A t \in 1..Len(retarget.output.tracks) : retarget.output.tracks[t].rotations = <<>>

\* --sample-rate=-0.75 on the one-second animation: static_cast<int> rounds
\* -0.75 to 0 and one frame is written, where the floor gives none.
C24_TruncatedTowardsZero ==
    /\ Completed
    /\ retarget.args.sample_rate = 0 - ((3 * One) \div 4)
    /\ retarget.args.animation.duration = TimeScale
    /\ retarget.num_keyframes = 1
    /\ FloorKeyframes = 0
    /\ Len(retarget.output.tracks[1].rotations) = 1

\* What holds: for a sample rate that is not negative the frames are as
\* claimed.
C24_UniformForNonNegativeRate ==
    (Completed /\ retarget.args.sample_rate >= 0) =>
        /\ retarget.num_keyframes = FloorKeyframes
        /\ \A t \in 1..Len(retarget.output.tracks) :
              /\ UniformKeys(retarget.output.tracks[t].translations,
                             retarget.num_keyframes, retarget.args.animation.duration)
              /\ UniformKeys(retarget.output.tracks[t].rotations,
                             retarget.num_keyframes, retarget.args.animation.duration)
              /\ UniformKeys(retarget.output.tracks[t].scales,
                             retarget.num_keyframes, retarget.args.animation.duration)

\* Rate 0.75 on the two-second animation: floor(1.5) + 1 = 2 frames, at 0
\* and at the duration.
C24_TwoFramesWitness ==
    /\ Completed
    /\ retarget.args.sample_rate = (3 * One) \div 4
    /\ retarget.args.animation.duration = 2 * TimeScale
    /\ Len(retarget.output.tracks[1].rotations) = 2
    /\ retarget.output.tracks[1].rotations[2].time = 2 * TimeScale

\* The frame just processed and the source locals sampled for it.
FrameProcessed == last.op = "frame" /\ last.status = "ok"
LastFrame == retarget.frame - 1
LastLocals == SampledLocals(retarget.args.animation, LastFrame * retarget.time_step)

\* The product of the local rotations from the root down to source joint i.
RECURSIVE PathRotation(_, _, _)
PathRotation(locals, parents, i) ==
    IF parents[i + 1] < 0 THEN locals[i + 1].rotation
    ELSE QuaternionMultiply(PathRotation(locals, parents, parents[i + 1]),
                            locals[i + 1].rotation)
ParentPathRotation(locals, parents, i) ==
    IF parents[i + 1] < 0 THEN QuatIdentity
    ELSE PathRotation(locals, parents, parents[i + 1])

\* The source joints a mapping lists, in listed order, as joint indices.
RECURSIVE ListedJoints(_, _)
ListedJoints(source_bones, joint_names) ==
    IF source_bones = <<>> THEN <<>>
    ELSE (IF \E i \in 1..Len(joint_names) : joint_names[i] = Head(source_bones)
          THEN <<(CHOOSE i \in 1..Len(joint_names) :
                     joint_names[i] = Head(source_bones)) - 1>>
          ELSE <<>>) \o ListedJoints(Tail(source_bones), joint_names)
RECURSIVE LocalsProduct(_, _)
LocalsProduct(locals, listed) ==
    IF Len(listed) = 1 THEN locals[listed[1] + 1].rotation
    ELSE QuaternionMultiply(LocalsProduct(locals, SubSeq(listed, 1, Len(listed) - 1)),
                            locals[listed[Len(listed)] + 1].rotation)

MappingOfJoint(t) == GetMapping(retarget.args.target_skeleton.names[t]).value
ListedOfJoint(t) ==
    ListedJoints(MappingOfJoint(t).source_bones, retarget.args.source_skeleton.names)
MappedJoints ==
    {t \in 1..Len(retarget.args.target_skeleton.names) :
        /\ GetMapping(retarget.args.target_skeleton.names[t]).has_value
        /\ ListedOfJoint(t) # <<>>}
\* The source world rotation of target joint t, corrected and normalised.
CorrectedSourceWorld(t) ==
    LET world == QuaternionMultiply(
                    ParentPathRotation(LastLocals, retarget.args.source_skeleton.parents,
                                       ListedOfJoint(t)[1]),
                    LocalsProduct(LastLocals, ListedOfJoint(t)))
    IN  NormalizeQuaternion(IF MappingOfJoint(t).has_correction
                            THEN QuaternionMultiply(world, MappingOfJoint(t).correction)
                            ELSE world)
RecordedParentWorld(t) ==
    IF retarget.args.target_skeleton.parents[t] < 0 THEN QuatIdentity
    ELSE retarget.target_world_rotations[retarget.args.target_skeleton.parents[t] + 1].value

\* C25: after each frame, for every mapped target joint, the world rotation
\* recorded, which is the recorded world rotation of the joint's parent
\* (identity for a root) times the rotation key emitted, is the normalised
\* corrected source world rotation: the world rotation of the first listed
\* source bone's parent, times the listed bones' local rotations in listed
\* order, times the correction if there is one; and the translation key is the
\* local translation of the first listed source bone.
C25_WorldRotationPreserved ==
    FrameProcessed =>
        \A t \in MappedJoints :
            /\ retarget.target_world_rotations[t].value = CorrectedSourceWorld(t)
            /\ retarget.target_world_rotations[t].value
                  = QuaternionMultiply(RecordedParentWorld(t),
                                       retarget.tracks[t].rotations[retarget.frame].value)
            /\ retarget.tracks[t].translations[retarget.frame].value
                  = LastLocals[ListedOfJoint(t)[1] + 1].translation

\* Frame 1 of the two-second animation with the combined mapping of
\* "LeftUpLeg" and the corrected mapping of "Hips": the parent's recorded
\* world rotation is not the identity, and the rotation recorded for
\* "LeftUpLeg" is the world rotation of "lfemurX".
C25_Witness ==
    /\ FrameProcessed
    /\ retarget.args.config = CorrectedConfig
    /\ retarget.args.source_skeleton = RetargetSource
    /\ retarget.args.animation = AnimWalk({})
    /\ LastFrame = 1
    /\ MappedJoints = {1, 3, 4}
    /\ ListedOfJoint(3) = <<1, 2>>
    /\ RecordedParentWorld(3) = QuaternionMultiply(ThirdTurn, HalfTurnY)
    /\ retarget.target_world_rotations[3].value
          = PathRotation(LastLocals, retarget.args.source_skeleton.parents, 2)
    /\ retarget.tracks[3].rotations[2].value # retarget.target_world_rotations[3].value
    /\ retarget.tracks[3].translations[2].value = Float3(2 * One, 2 * One, 0)

\* The sampling of the frame about to be processed fails.
SamplingFailure ==
    \/ retarget.frame \in retarget.args.animation.fails
    \/ retarget.args.animation.num_tracks > Len(retarget.args.source_skeleton.names)

\* C26: a frame whose sampling fails ends the run with exit status 1 and that
\* frame reported, and in every step the output is written only by the step
\* that follows the last frame, with every frame processed and the assembled
\* animation valid; a run that ends with status 1 has written nothing.
C26_NoPartialOutput ==
    [][/\ (retarget.pc = "frames" /\ retarget'.pc = "exited"
              /\ retarget.frame < retarget.num_keyframes)
          => /\ retarget'.exit_code = 1
             /\ retarget'.reported = retarget.frame
             /\ SamplingFailure
             /\ retarget'.output = <<>>
       /\ (retarget.pc = "frames" /\ retarget.frame < retarget.num_keyframes
              /\ SamplingFailure
              /\ retarget' # retarget)
          => retarget'.pc = "exited" /\ retarget'.exit_code = 1
       /\ retarget'.output # retarget.output
          => /\ retarget.output = <<>>
             /\ retarget.pc = "frames"
             /\ retarget.frame >= retarget.num_keyframes
             /\ retarget'.exit_code = 0
             /\ retarget'.output.tracks = retarget.tracks
             /\ ValidateAnimation(retarget'.output)
             /\ \A t \in 1..Len(retarget.tracks) :
                   Len(retarget.tracks[t].rotations) = Max(0, retarget.num_keyframes)
       /\ retarget'.exit_code = 1 => retarget'.output = <<>>]_vars

\* The sampling of frame 1 failed after frame 0 was keyed: exit status 1,
\* frame 1 reported, one key in each track, no output.
C26_AbortedAtFrameOne ==
    /\ retarget.pc = "exited"
    /\ retarget.exit_code = 1
    /\ retarget.reported = 1
    /\ Len(retarget.tracks[1].rotations) = 1
    /\ retarget.output = <<>>

\* A run that wrote its output after three frames.
C26_WrittenAfterLastFrame ==
    /\ retarget.pc = "exited"
    /\ retarget.exit_code = 0
    /\ retarget.frame = 3
    /\ retarget.num_keyframes = 3
    /\ retarget.output # <<>>
    /\ Len(retarget.output.tracks[1].rotations) = 3

\* The output file could not be created: status 1, nothing written.
C26_UnwritableWitness ==
    /\ retarget.pc = "exited"
    /\ retarget.exit_code = 1
    /\ retarget.reported = -1
    /\ retarget.frame = 3
    /\ ~retarget.args.writable
    /\ retarget.output = <<>>

\* run with both world rotation vectors as they were constructed.
WithoutHistory(run) ==
    [run EXCEPT !.source_world_rotations =
                    [i \in 1..Len(run.source_world_rotations) |-> Unassigned],
                !.target_world_rotations =
                    [i \in 1..Len(run.target_world_rotations) |-> Unassigned]]

\* C28: in every pass of the frame loop, each element of
\* source_world_rotations and target_world_rotations that is read was
\* assigned earlier in the same pass, and the keys pushed are those the pass
\* pushes when both vectors hold nothing from earlier frames.
C28_NoCarryOver ==
    [][(retarget.pc = "frames" /\ retarget'.frame = retarget.frame + 1) =>
          /\ \A rd \in retarget'.reads :
                rd.frame = retarget.frame /\ rd.written = retarget.frame
          /\ retarget'.tracks = Frame(WithoutHistory(retarget)).tracks]_vars

\* The third frame of a run: elements of both vectors were read, all of them
\* assigned in that frame, while the vectors held the values of frame 1.
C28_Witness ==
    /\ FrameProcessed
    /\ LastFrame = 2
    /\ \E rd \in retarget.reads : rd.array = "source" /\ rd.written = 2
    /\ \E rd \in retarget.reads : rd.array = "target" /\ rd.written = 2
    /\ \A i \in 1..Len(retarget.target_world_rotations) :
          retarget.target_world_rotations[i].frame = 2
    /\ retarget.tracks[3].rotations[2].value # retarget.tracks[3].rotations[3].value

====
